---- MODULE Spec2Model ----
(***************************************************************************)
(* Trust Verifier: fact extraction (extract), contradiction detection      *)
(* (rules), explanation mapping (explain), insight/details (summary) and   *)
(* the pipeline orchestrator (analyzePipeline) with its HTTP entry points. *)
(*                                                                         *)
(* Texts and URLs are sequences of one-character strings, so the regular   *)
(* expressions of the extractors are evaluated character by character.     *)
(* An optional field (JS undefined) is the empty set, a present value v is *)
(* the singleton {v}.                                                      *)
(***************************************************************************)
EXTENDS Integers, Sequences, FiniteSets, TLC

VARIABLES
    nodeEnv,      \* process.env.NODE_ENV
    entry,        \* the entry point serving the request
    request,      \* the request: whether its body parses, and its url
    response,     \* what the entry point finally answered
    emitted,      \* events written to the progress sink / stream, in order
    closed,       \* the stream controller has been closed
    minoCalls,    \* number of runMinoAgent invocations
    handler,      \* position of the calling handler
    url,          \* analyzeProduct: argument url
    options,      \* analyzeProduct: argument options
    pc,           \* analyzeProduct / inline pipeline: position
    steps,        \* trace steps
    mino,         \* result of runMinoAgent
    productText,  \* text handed to extractClaims
    policyText,   \* text handed to extractPolicy
    claims,       \* extractClaims result
    policy,       \* extractPolicy result
    rules,        \* detectContradictions result
    explanations, \* explainFlags result
    outcome,      \* what the invocation returned or threw
    log,          \* events sent and steps pushed, in the order they happened
    other,        \* the locals of a second analyzeProduct invocation, while it is suspended
    page,         \* fetchPageHtml: its position, its timer and what it resolved to
    consumer      \* the reader of the event stream: connected or gone

vars == <<nodeEnv, entry, request, response, emitted, closed, minoCalls, handler, url,
          options, pc, steps, mino, productText, policyText, claims, policy, rules,
          explanations, outcome, log, other, page, consumer>>

----------------------------------------------------------------------------
(* Characters and text primitives                                          *)

Undefined == {}
Some(v) == {v}
Val(o) == CHOOSE v \in o : TRUE

NoMatch == 0 - 1

Min(S) == CHOOSE x \in S : \A y \in S : x <= y
Max(S) == CHOOSE x \in S : \A y \in S : x >= y

Digits == <<"0","1","2","3","4","5","6","7","8","9">>
Uppers == <<"A","B","C","D","E","F","G","H","I","J","K","L","M",
            "N","O","P","Q","R","S","T","U","V","W","X","Y","Z">>
Lowers == <<"a","b","c","d","e","f","g","h","i","j","k","l","m",
            "n","o","p","q","r","s","t","u","v","w","x","y","z">>

IsSpace(c) == c \in {" ", "\n", "\t", "\r"}
IsDigit(c) == \E i \in 1..10 : Digits[i] = c
DigitVal(c) == (CHOOSE i \in 1..10 : Digits[i] = c) - 1
IsAlpha(c) == \E i \in 1..26 : Uppers[i] = c \/ Lowers[i] = c

ToLower(c) ==
    IF \E i \in 1..26 : Uppers[i] = c
    THEN Lowers[CHOOSE i \in 1..26 : Uppers[i] = c]
    ELSE c

LowerText(t) == [i \in 1..Len(t) |-> ToLower(t[i])]

\* text.replace(/\s+/g, " "): a whitespace character that follows another one is dropped,
\* the first of a run becomes a space
Collapse(t) ==
    LET marked == [i \in 1..Len(t) |->
                      [c |-> IF IsSpace(t[i]) THEN " " ELSE t[i],
                       drop |-> IsSpace(t[i]) /\ i > 1 /\ IsSpace(t[i - 1])]]
        Kept(m) == ~m.drop
        kept == SelectSeq(marked, Kept)
    IN  [i \in 1..Len(kept) |-> kept[i].c]

\* String.prototype.trim
Trim(t) ==
    LET solid == {i \in 1..Len(t) : ~IsSpace(t[i])}
    IN  IF solid = {} THEN <<>> ELSE SubSeq(t, Min(solid), Max(solid))

normalize(text) == Trim(Collapse(text))

\* the literal lit occurs in s at position i
MatchAt(s, i, lit) ==
    /\ i >= 1
    /\ i + Len(lit) - 1 <= Len(s)
    /\ \A k \in 1..Len(lit) : s[i + k - 1] = lit[k]

\* /lit/.test(s)
Contains(s, lit) == \E i \in 1..(Len(s) - Len(lit) + 1) : MatchAt(s, i, lit)

\* first position at or after i that is not whitespace (greedy \s*)
SpaceEnd(s, i) == Min({j \in i..(Len(s) + 1) : j = Len(s) + 1 \/ ~IsSpace(s[j])})

\* first position at or after i that is not a digit (greedy [0-9]*)
DigitEnd(s, i) == Min({j \in i..(Len(s) + 1) : j = Len(s) + 1 \/ ~IsDigit(s[j])})

\* Number() of the decimal digits s[a..b-1]
RECURSIVE ToNumber(_, _, _)
ToNumber(s, a, b) ==
    IF a >= b THEN 0 ELSE ToNumber(s, a, b - 1) * 10 + DigitVal(s[b - 1])

\* /a[seps]?b/.test(s) for literals a, b and a one-character class seps
Compound(s, a, seps, b) ==
    \E i \in 1..Len(s) :
        /\ MatchAt(s, i, a)
        /\ \/ MatchAt(s, i + Len(a), b)
           \/ /\ i + Len(a) <= Len(s)
              /\ s[i + Len(a)] \in seps
              /\ MatchAt(s, i + Len(a) + 1, b)

\* result of String.prototype.match for a pattern whose match at start i is At(s, i):
\* the leftmost start that matches
FirstMatch(s, At(_, _)) ==
    LET hits == {i \in 1..Len(s) : At(s, i) # NoMatch}
    IN  IF hits = {} THEN NoMatch ELSE At(s, Min(hits))

----------------------------------------------------------------------------
(* Pattern literals (all patterns carry the i flag; texts are lower-cased  *)
(* before matching)                                                        *)

L_return ==
    <<"r","e","t","u","r","n">>
L_within ==
    <<"w","i","t","h","i","n">>
L_day ==
    <<"d","a","y">>
L_policy ==
    <<"p","o","l","i","c","y">>
L_warranty ==
    <<"w","a","r","r","a","n","t","y">>
L_year ==
    <<"y","e","a","r">>
L_month ==
    <<"m","o","n","t","h">>
L_outOfStock ==
    <<"o","u","t"," ","o","f"," ","s","t","o","c","k">>
L_soldOut ==
    <<"s","o","l","d"," ","o","u","t">>
L_unavailable ==
    <<"u","n","a","v","a","i","l","a","b","l","e">>
L_pre ==
    <<"p","r","e">>
L_order ==
    <<"o","r","d","e","r">>
L_back ==
    <<"b","a","c","k">>
L_inStock ==
    <<"i","n"," ","s","t","o","c","k">>
L_availableNow ==
    <<"a","v","a","i","l","a","b","l","e"," ","n","o","w">>
L_available ==
    <<"a","v","a","i","l","a","b","l","e">>
L_usd ==
    <<"u","s","d">>
L_inr ==
    <<"i","n","r">>
L_eur ==
    <<"e","u","r">>
L_gbp ==
    <<"g","b","p">>
L_cad ==
    <<"c","a","d">>
L_aud ==
    <<"a","u","d">>
L_noReturns ==
    <<"n","o"," ","r","e","t","u","r","n","s">>
L_finalSale ==
    <<"f","i","n","a","l"," ","s","a","l","e">>
L_non ==
    <<"n","o","n">>
L_returnable ==
    <<"r","e","t","u","r","n","a","b","l","e">>
L_returnsAccepted ==
    <<"r","e","t","u","r","n","s"," ","a","c","c","e","p","t","e","d">>
L_freeReturns ==
    <<"f","r","e","e"," ","r","e","t","u","r","n","s">>
L_returnPolicy ==
    <<"r","e","t","u","r","n"," ","p","o","l","i","c","y">>
L_noWarranty ==
    <<"n","o"," ","w","a","r","r","a","n","t","y">>
L_as ==
    <<"a","s">>
L_is ==
    <<"i","s">>
L_withoutWarranty ==
    <<"w","i","t","h","o","u","t"," ","w","a","r","r","a","n","t","y">>
L_priceMatch ==
    <<"p","r","i","c","e"," ","m","a","t","c","h">>
L_priceGuarantee ==
    <<"p","r","i","c","e"," ","g","u","a","r","a","n","t","e","e">>
L_priceGuaranteed ==
    <<"p","r","i","c","e"," ","g","u","a","r","a","n","t","e","e","d">>
L_pricesSubject ==
    <<"p","r","i","c","e","s"," ","s","u","b","j","e","c","t"," ","t","o"," ","c","h","a",
      "n","g","e">>
L_reserveRight ==
    <<"r","e","s","e","r","v","e"," ","t","h","e"," ","r","i","g","h","t"," ","t","o"," ",
      "c","h","a","n","g","e"," ","p","r","i","c","e","s">>
L_subjectToAvailability ==
    <<"s","u","b","j","e","c","t"," ","t","o"," ","a","v","a","i","l","a","b","i","l","i",
      "t","y">>
L_availabilityNotGuaranteed ==
    <<"a","v","a","i","l","a","b","i","l","i","t","y"," ","n","o","t"," ","g","u","a","r",
      "a","n","t","e","e","d">>

----------------------------------------------------------------------------
(* Texts and URLs                                                          *)

ClearProductText ==
    <<"I","n"," ","s","t","o","c","k","."," ","R","e","t","u","r","n","s"," ","a","c","c",
      "e","p","t","e","d"," ","w","i","t","h","i","n"," ","3","0"," ","d","a","y","s",".",
      " ","1"," ","y","e","a","r"," ","w","a","r","r","a","n","t","y"," ","i","n","c","l",
      "u","d","e","d",".">>
ClearPolicyText ==
    <<"R","e","t","u","r","n"," ","p","o","l","i","c","y",":"," ","r","e","t","u","r","n",
      "s"," ","a","c","c","e","p","t","e","d"," ","w","i","t","h","i","n"," ","3","0"," ",
      "d","a","y","s","."," ","W","a","r","r","a","n","t","y"," ","l","a","s","t","s"," ",
      "1","2"," ","m","o","n","t","h","s",".">>
ConflictProductText ==
    <<"P","r","i","c","e"," ","m","a","t","c","h"," ","g","u","a","r","a","n","t","e","e",
      "."," ","I","n"," ","s","t","o","c","k","."," ","F","r","e","e"," ","r","e","t","u",
      "r","n","s"," ","i","n"," ","3","0"," ","d","a","y","s",".">>
ConflictPolicyText ==
    <<"P","r","i","c","e","s"," ","s","u","b","j","e","c","t"," ","t","o"," ","c","h","a",
      "n","g","e"," ","w","i","t","h","o","u","t"," ","n","o","t","i","c","e","."," ","A",
      "v","a","i","l","a","b","i","l","i","t","y"," ","n","o","t"," ","g","u","a","r","a",
      "n","t","e","e","d",".">>
UnclearProductText ==
    <<"W","a","r","r","a","n","t","y"," ","i","n","c","l","u","d","e","d",".">>
UnclearPolicyText ==
    <<>>
UrlClear ==
    <<"h","t","t","p","s",":","/","/","e","x","a","m","p","l","e",".","c","o","m","/","p",
      "r","o","d","u","c","t","/","c","l","e","a","r">>
UrlConflict ==
    <<"h","t","t","p","s",":","/","/","e","x","a","m","p","l","e",".","c","o","m","/","p",
      "r","o","d","u","c","t","/","c","o","n","f","l","i","c","t">>
UrlUnclear ==
    <<"h","t","t","p","s",":","/","/","e","x","a","m","p","l","e",".","c","o","m","/","p",
      "r","o","d","u","c","t","/","u","n","c","l","e","a","r">>
BlankText ==
    <<" ","\n","\t"," ">>
NoiseText ==
    <<"G","r","e","a","t"," ","s","h","o","e","s",","," ","s","i","z","e"," ","4","2","!">>
FinalSaleText ==
    <<"N","o"," ","r","e","t","u","r","n","s","."," ","F","i","n","a","l"," ","s","a","l",
      "e",","," ","s","o","l","d"," ","A","S","-","I","S","."," ","S","o","l","d"," ","o",
      "u","t",".">>
ShortReturnsText ==
    <<"R","e","t","u","r","n","s"," "," ","w","i","t","h","i","n"," ","1","4"," ","d","a",
      "y","s",".","\n","W","a","r","r","a","n","t","y",":"," ","2"," ","y","e","a","r","s",
      "."," ","U","S","D"," ","1","9",".","9","9">>
LongReturnsText ==
    <<"4","5"," ","d","a","y"," ","r","e","t","u","r","n","s","."," ","P","r","e","-","o",
      "r","d","e","r"," ","n","o","w","."," ","P","r","i","c","e"," ","g","u","a","r","a",
      "n","t","e","e","d","."," ","W","a","r","r","a","n","t","y"," ","3","6"," ","m","o",
      "n","t","h","s">>
TermsText ==
    <<"R","e","t","u","r","n","s"," ","p","o","l","i","c","y"," ","i","s"," ","3","0"," ",
      "d","a","y","s","."," ","W","i","t","h","o","u","t"," ","w","a","r","r","a","n","t",
      "y","."," ","S","u","b","j","e","c","t"," ","t","o"," ","a","v","a","i","l","a","b",
      "i","l","i","t","y",".">>
UrlInvalid ==
    <<"n","o","t"," ","a"," ","u","r","l">>
UrlOther ==
    <<"h","t","t","p","s",":","/","/","s","h","o","p",".","e","x","a","m","p","l","e","/",
      "p","/","1">>
L_http ==
    <<"h","t","t","p">>
L_https ==
    <<"h","t","t","p","s">>
L_ftp ==
    <<"f","t","p">>
L_ws ==
    <<"w","s">>
L_wss ==
    <<"w","s","s">>

----------------------------------------------------------------------------
(* extract: field detectors                                                *)

DayDigits == 3
WarrantyDigits == 2
WarrantyLookahead == 120
MonthsPerYear == 12

\* /return[s]?\s+within\s+(\d{1,3})\s+day/i matched at start i: the captured number
ReturnsWithinAt(s, i) ==
    IF ~MatchAt(s, i, L_return) THEN NoMatch
    ELSE LET a == i + Len(L_return)
             b == IF a <= Len(s) /\ s[a] = "s" THEN a + 1 ELSE a
             c == SpaceEnd(s, b)
             d == c + Len(L_within)
             e == SpaceEnd(s, d)
             f == DigitEnd(s, e)
             g == SpaceEnd(s, f)
         IN  IF /\ c > b
                /\ MatchAt(s, c, L_within)
                /\ e > d
                /\ f > e
                /\ f - e <= DayDigits
                /\ g > f
                /\ MatchAt(s, g, L_day)
             THEN ToNumber(s, e, f)
             ELSE NoMatch

\* /(\d{1,3})\s+day[s]?\s+return/i matched at start i
DaysReturnAt(s, i) ==
    IF ~IsDigit(s[i]) THEN NoMatch
    ELSE LET f == DigitEnd(s, i)
             g == SpaceEnd(s, f)
             h == g + Len(L_day)
             k == IF h <= Len(s) /\ s[h] = "s" THEN h + 1 ELSE h
             m == SpaceEnd(s, k)
         IN  IF /\ f - i <= DayDigits
                /\ g > f
                /\ MatchAt(s, g, L_day)
                /\ m > k
                /\ MatchAt(s, m, L_return)
             THEN ToNumber(s, i, f)
             ELSE NoMatch

\* \d{1,3}\s+day matched with the digits starting at k
DigitsDayAt(s, k) ==
    /\ k <= Len(s)
    /\ IsDigit(s[k])
    /\ DigitEnd(s, k) - k <= DayDigits
    /\ SpaceEnd(s, DigitEnd(s, k)) > DigitEnd(s, k)
    /\ MatchAt(s, SpaceEnd(s, DigitEnd(s, k)), L_day)

\* /return[s]?\s+policy\s+.*?(\d{1,3})\s+day/i matched at start i
ReturnPolicyAt(s, i) ==
    IF ~MatchAt(s, i, L_return) THEN NoMatch
    ELSE LET a == i + Len(L_return)
             b == IF a <= Len(s) /\ s[a] = "s" THEN a + 1 ELSE a
             c == SpaceEnd(s, b)
             d == c + Len(L_policy)
             e == SpaceEnd(s, d)
             ks == {k \in e..Len(s) :
                       /\ DigitsDayAt(s, k)
                       /\ \A m \in e..(k - 1) : s[m] \notin {"\n", "\r"}}
         IN  IF c > b /\ MatchAt(s, c, L_policy) /\ e > d /\ ks # {}
             THEN ToNumber(s, Min(ks), DigitEnd(s, Min(ks)))
             ELSE NoMatch

findReturnDays(text) ==
    LET s == LowerText(text)
        m1 == FirstMatch(s, ReturnsWithinAt)
        m2 == FirstMatch(s, DaysReturnAt)
        m3 == FirstMatch(s, ReturnPolicyAt)
    IN  IF m1 # NoMatch THEN Some(m1)
        ELSE IF m2 # NoMatch THEN Some(m2)
        ELSE IF m3 # NoMatch THEN Some(m3)
        ELSE Undefined

\* (year|years|month|months) at j: the month count of one unit, or NoMatch
UnitAt(s, j) ==
    IF MatchAt(s, j, L_year) THEN MonthsPerYear
    ELSE IF MatchAt(s, j, L_month) THEN 1
    ELSE NoMatch

\* (\d{1,2})\s*(year|years|month|months) with the digits starting at k:
\* the number of months, or NoMatch
DurationAt(s, k) ==
    IF k > Len(s) \/ ~IsDigit(s[k]) THEN NoMatch
    ELSE LET n == Min({DigitEnd(s, k) - k, WarrantyDigits})
             tries == {j \in 1..n : UnitAt(s, SpaceEnd(s, k + j)) # NoMatch}
         IN  IF tries = {} THEN NoMatch
             ELSE ToNumber(s, k, k + Max(tries)) * UnitAt(s, SpaceEnd(s, k + Max(tries)))

\* /warranty[^.\n]{0,120}?(\d{1,2})\s*(year|years|month|months)/i matched at start i
WarrantyAt(s, i) ==
    IF ~MatchAt(s, i, L_warranty) THEN NoMatch
    ELSE LET p == i + Len(L_warranty)
             ks == {k \in p..Min({p + WarrantyLookahead, Len(s)}) :
                       /\ DurationAt(s, k) # NoMatch
                       /\ \A m \in p..(k - 1) : s[m] \notin {".", "\n"}}
         IN  IF ks = {} THEN NoMatch ELSE DurationAt(s, Min(ks))

findWarrantyMonths(text) ==
    LET m == FirstMatch(LowerText(text), WarrantyAt)
    IN  IF m = NoMatch THEN Undefined ELSE Some(m)

findStockStatus(text) ==
    LET s == LowerText(text)
    IN  IF Contains(s, L_outOfStock) \/ Contains(s, L_soldOut) \/ Contains(s, L_unavailable)
        THEN Some("out_of_stock")
        ELSE IF Compound(s, L_pre, {"-", " ", "\n", "\t", "\r"}, L_order)
        THEN Some("preorder")
        ELSE IF Compound(s, L_back, {" ", "\n", "\t", "\r"}, L_order)
        THEN Some("backorder")
        ELSE IF Contains(s, L_inStock) \/ Contains(s, L_availableNow) \/ Contains(s, L_available)
        THEN Some("in_stock")
        ELSE Undefined

\* length of the currency token (USD|INR|EUR|GBP|CAD|AUD|[$€£₹]) at i, 0 when none
CurrencyLen(s, i) ==
    IF \E code \in {L_usd, L_inr, L_eur, L_gbp, L_cad, L_aud} : MatchAt(s, i, code) THEN 3
    ELSE IF s[i] \in {"$", "€", "£", "₹"} THEN 1
    ELSE 0

\* /(USD|...|[$€£₹])\s*([0-9]+(?:\.[0-9]{2})?)/i matched at start i: Number(match[2]),
\* kept in hundredths
PriceAt(s, i) ==
    IF CurrencyLen(s, i) = 0 THEN NoMatch
    ELSE LET j == SpaceEnd(s, i + CurrencyLen(s, i))
             f == DigitEnd(s, j)
             cents == IF /\ f + 2 <= Len(s)
                         /\ s[f] = "."
                         /\ IsDigit(s[f + 1])
                         /\ IsDigit(s[f + 2])
                      THEN ToNumber(s, f + 1, f + 3)
                      ELSE 0
         IN  IF f > j THEN ToNumber(s, j, f) * 100 + cents ELSE NoMatch

findPriceValue(text) ==
    LET m == FirstMatch(LowerText(text), PriceAt)
    IN  IF m = NoMatch THEN Undefined ELSE Some(m)

findReturnsAllowed(text) ==
    LET s == LowerText(text)
    IN  IF \/ Contains(s, L_noReturns)
           \/ Contains(s, L_finalSale)
           \/ Compound(s, L_non, {"-", " ", "\n", "\t", "\r"}, L_returnable)
        THEN Some(FALSE)
        ELSE IF \/ Contains(s, L_returnsAccepted)
                \/ Contains(s, L_freeReturns)
                \/ Contains(s, L_returnPolicy)
        THEN Some(TRUE)
        ELSE Undefined

findWarrantyProvided(text) ==
    LET s == LowerText(text)
    IN  IF \/ Contains(s, L_noWarranty)
           \/ Compound(s, L_as, {"-", " ", "\n", "\t", "\r"}, L_is)
           \/ Contains(s, L_withoutWarranty)
        THEN Some(FALSE)
        ELSE IF Contains(s, L_warranty) THEN Some(TRUE)
        ELSE Undefined

findPriceGuarantee(text) ==
    LET s == LowerText(text)
    IN  IF \/ Contains(s, L_priceMatch)
           \/ Contains(s, L_priceGuarantee)
           \/ Contains(s, L_priceGuaranteed)
        THEN Some(TRUE)
        ELSE IF Contains(s, L_pricesSubject) \/ Contains(s, L_reserveRight)
        THEN Some(FALSE)
        ELSE Undefined

findPricePolicy(text) ==
    LET s == LowerText(text)
    IN  IF Contains(s, L_priceMatch) THEN Some("price_match")
        ELSE IF Contains(s, L_priceGuarantee) \/ Contains(s, L_priceGuaranteed)
        THEN Some("price_guarantee")
        ELSE IF Contains(s, L_pricesSubject) \/ Contains(s, L_reserveRight)
        THEN Some("price_change")
        ELSE Undefined

\* mutant: a text that says nothing about availability counts as a warning
findStockWarning_WarnsWhenSilent(text) ==
    LET s == LowerText(text)
    IN  Some(~Contains(s, L_inStock))

\* returns a boolean, never undefined
findStockWarning(text) ==
    LET s == LowerText(text)
    IN  Some(Contains(s, L_subjectToAvailability) \/ Contains(s, L_availabilityNotGuaranteed))

\* a Fact Set (ExtractedBase): a key the extractor does not set reads as undefined
extractClaims(text0) ==
    LET text == normalize(text0)
    IN  [returnsDays      |-> findReturnDays(text),
         returnsAllowed   |-> findReturnsAllowed(text),
         warrantyMonths   |-> findWarrantyMonths(text),
         warrantyProvided |-> findWarrantyProvided(text),
         stockStatus      |-> findStockStatus(text),
         priceValue       |-> findPriceValue(text),
         priceGuarantee   |-> findPriceGuarantee(text),
         pricePolicy      |-> Undefined,
         stockWarning     |-> Undefined]

extractPolicy(text0) ==
    LET text == normalize(text0)
    IN  [returnsDays      |-> findReturnDays(text),
         returnsAllowed   |-> findReturnsAllowed(text),
         warrantyMonths   |-> findWarrantyMonths(text),
         warrantyProvided |-> findWarrantyProvided(text),
         stockStatus      |-> Undefined,
         priceValue       |-> Undefined,
         priceGuarantee   |-> Undefined,
         pricePolicy      |-> findPricePolicy(text),
         stockWarning     |-> findStockWarning(text)]

----------------------------------------------------------------------------
(* rules: detectContradictions                                             *)

FlagIf(cond, flag) == IF cond THEN <<flag>> ELSE <<>>

\* mutant: rule 3 pasted from rule 2 without flipping the two sides
ReturnsFlags_CopiedRule(c, p) ==
    FlagIf(/\ c.returnsDays # Undefined
           /\ p.returnsDays # Undefined
           /\ Val(c.returnsDays) > Val(p.returnsDays), "returns_conflict")
    \o FlagIf(c.returnsAllowed = Some(TRUE) /\ p.returnsAllowed = Some(FALSE),
              "returns_conflict")
    \o FlagIf(c.returnsAllowed = Some(TRUE) /\ p.returnsAllowed = Some(FALSE),
              "returns_conflict")

\* rules 1-3 (lines 24-44): each pushes returns_conflict when it holds
ReturnsFlags(c, p) ==
    FlagIf(/\ c.returnsDays # Undefined
           /\ p.returnsDays # Undefined
           /\ Val(c.returnsDays) > Val(p.returnsDays), "returns_conflict")
    \o FlagIf(c.returnsAllowed = Some(TRUE) /\ p.returnsAllowed = Some(FALSE),
              "returns_conflict")
    \o FlagIf(c.returnsAllowed = Some(FALSE) /\ p.returnsAllowed = Some(TRUE),
              "returns_conflict")

\* mutant: rule 4 also fires when claim and policy state the same warranty length
WarrantyFlags_AtLeast(c, p) ==
    FlagIf(/\ c.warrantyMonths # Undefined
           /\ p.warrantyMonths # Undefined
           /\ Val(c.warrantyMonths) >= Val(p.warrantyMonths), "warranty_conflict")
    \o FlagIf(c.warrantyProvided = Some(TRUE) /\ p.warrantyProvided = Some(FALSE),
              "warranty_conflict")

\* rules 4-5 (lines 46-59): each pushes warranty_conflict when it holds
WarrantyFlags(c, p) ==
    FlagIf(/\ c.warrantyMonths # Undefined
           /\ p.warrantyMonths # Undefined
           /\ Val(c.warrantyMonths) > Val(p.warrantyMonths), "warranty_conflict")
    \o FlagIf(c.warrantyProvided = Some(TRUE) /\ p.warrantyProvided = Some(FALSE),
              "warranty_conflict")

\* mutant: rule 6 never fires
StockFlags_Never(c, p) == <<>>

\* rule 6 (lines 61-66): policy.stockWarning is tested for truthiness
StockFlags(c, p) ==
    FlagIf(c.stockStatus = Some("in_stock") /\ p.stockWarning = Some(TRUE),
           "stock_conflict")

\* rule 7 (lines 68-73)
PriceFlags(c, p) ==
    FlagIf(c.priceGuarantee = Some(TRUE) /\ p.pricePolicy = Some("price_change"),
           "price_conflict")

ConflictFlags(c, p) ==
    ReturnsFlags(c, p) \o WarrantyFlags(c, p) \o StockFlags(c, p) \o PriceFlags(c, p)

returnsClaimed(c) == c.returnsDays # Undefined \/ c.returnsAllowed # Undefined
returnsPolicy(p) == p.returnsDays # Undefined \/ p.returnsAllowed # Undefined
warrantyClaimed(c) == c.warrantyMonths # Undefined \/ c.warrantyProvided # Undefined
warrantyPolicy(p) == p.warrantyMonths # Undefined \/ p.warrantyProvided # Undefined
stockClaimed(c) == c.stockStatus # Undefined
\* mutant: the policy covers stock only when it carries a stock warning
stockPolicy_WarningOnly(p) == p.stockWarning = Some(TRUE)

stockPolicy(p) == p.stockWarning # Undefined
priceClaimed(c) == c.priceGuarantee # Undefined \/ c.priceValue # Undefined
pricePolicy(p) == p.pricePolicy # Undefined

\* some topic is claimed but not covered by the policy
CoverageGap(c, p) ==
    \/ returnsClaimed(c) /\ ~returnsPolicy(p)
    \/ warrantyClaimed(c) /\ ~warrantyPolicy(p)
    \/ stockClaimed(c) /\ ~stockPolicy(p)
    \/ priceClaimed(c) /\ ~pricePolicy(p)

hasAnySignal(c, p) ==
    \/ returnsClaimed(c) \/ returnsPolicy(p)
    \/ warrantyClaimed(c) \/ warrantyPolicy(p)
    \/ stockClaimed(c) \/ stockPolicy(p)
    \/ priceClaimed(c) \/ pricePolicy(p)

\* flag.endsWith("_conflict")
IsConflict(flag) ==
    flag \in {"returns_conflict", "warranty_conflict", "stock_conflict", "price_conflict"}

hasConflict(flags) == \E i \in 1..Len(flags) : IsConflict(flags[i])
hasUnclear(flags) == \E i \in 1..Len(flags) : flags[i] = "unclear"

\* mutant: the unclear test placed before the conflict test
VerdictOf_UnclearFirst(flags) ==
    IF hasUnclear(flags) THEN "unclear"
    ELSE IF hasConflict(flags) THEN "risk"
    ELSE IF Len(flags) # 0 THEN "caution"
    ELSE "good"

\* mutant: the cascade without its unclear branch
VerdictOf_NoUnclearBranch(flags) ==
    IF hasConflict(flags) THEN "risk"
    ELSE IF Len(flags) # 0 THEN "caution"
    ELSE "good"

VerdictOf(flags) ==
    IF hasConflict(flags) THEN "risk"
    ELSE IF hasUnclear(flags) THEN "unclear"
    ELSE IF Len(flags) # 0 THEN "caution"
    ELSE "good"

\* mutant: the no-signal test without its negation
DetectFlags_SignalInverted(c, p) ==
    ConflictFlags(c, p)
    \o FlagIf(CoverageGap(c, p), "unclear")
    \o FlagIf(hasAnySignal(c, p), "unclear")

DetectFlags(c, p) ==
    ConflictFlags(c, p)
    \o FlagIf(CoverageGap(c, p), "unclear")
    \o FlagIf(~hasAnySignal(c, p), "unclear")

detectContradictions(c, p) ==
    [flags |-> DetectFlags(c, p), verdict |-> VerdictOf(DetectFlags(c, p))]

----------------------------------------------------------------------------
(* explain: explainFlags                                                   *)

EXPLANATIONS(flag) ==
    CASE flag = "returns_conflict" ->
             "Return terms on the product page conflict with the returns policy."
      [] flag = "warranty_conflict" ->
             "Warranty claims on the product page conflict with the warranty policy."
      [] flag = "stock_conflict" ->
             "Stock claims on the product page conflict with availability warnings."
      [] flag = "price_conflict" ->
             "Price guarantees on the product page conflict with pricing policies."
      [] flag = "unclear" ->
             "Unclear: not enough explicit text to verify claims against policies."
      [] flag = "invalid_url" -> "URL is missing or invalid."
      [] flag = "analysis_failed" ->
             "Analysis failed. Try again or use a test URL in dev."
      [] flag = "dev_only" -> "Development mode only supports the test URLs."

explainFlags(flags) == [i \in 1..Len(flags) |-> EXPLANATIONS(flags[i])]

----------------------------------------------------------------------------
(* summary: buildProductInsight, buildProductDetails                       *)

\* policyText.trim() ? "present" : "missing"
PolicyStatus(text) == IF Trim(text) # <<>> THEN "present" ELSE "missing"

describeHiddenFindings(flags, status) ==
    LET hasFlag(f) == \E i \in 1..Len(flags) : flags[i] = f
    IN  FlagIf(hasFlag("returns_conflict"),
               "Return policy claims conflict with policy details.")
        \o FlagIf(hasFlag("warranty_conflict"),
                  "Warranty terms conflict between product and policy.")
        \o FlagIf(hasFlag("stock_conflict"),
                  "Stock availability conflicts with policy warnings.")
        \o FlagIf(hasFlag("price_conflict"),
                  "Price guarantees conflict with policy price changes.")
        \o FlagIf(hasFlag("unclear"), "Some claims lack clear policy coverage.")
        \o FlagIf(status = "missing",
                  "No policy pages were found to verify hidden costs or terms.")

OrFiller(list, filler) == IF Len(list) = 0 THEN <<filler>> ELSE list

\* the summary sentence and the product name/price label are presentation only and are
\* not carried in the model
buildProductInsight(pText, polText, c, p) ==
    [message |-> IF PolicyStatus(polText) = "missing"
                 THEN "No hidden policy pages were found, and no flags were raised."
                 ELSE "No hidden policy conflicts or flags were detected.",
     pros |-> OrFiller(FlagIf(c.returnsAllowed = Some(TRUE), "Returns are allowed.")
                       \o FlagIf(c.warrantyProvided = Some(TRUE),
                                 "Warranty coverage is mentioned.")
                       \o FlagIf(c.stockStatus = Some("in_stock"), "Item appears in stock.")
                       \o FlagIf(c.priceValue # Undefined, "Price is listed.")
                       \o FlagIf(c.priceGuarantee = Some(TRUE),
                                 "Price guarantee is mentioned."),
                       "Limited product assurances detected."),
     cons |-> OrFiller(FlagIf(c.returnsAllowed = Some(FALSE), "Returns may not be allowed.")
                       \o FlagIf(c.warrantyProvided = Some(FALSE),
                                 "No warranty is indicated.")
                       \o FlagIf(p.stockWarning = Some(TRUE), "Availability may be limited.")
                       \o FlagIf(p.pricePolicy = Some("price_change"),
                                 "Prices can change without notice."),
                       "No major policy drawbacks detected."),
     policyStatus |-> PolicyStatus(polText)]

buildProductDetails(pText, polText, flags) ==
    [flags |-> flags,
     hiddenFindings |-> describeHiddenFindings(flags, PolicyStatus(polText)),
     policyStatus |-> PolicyStatus(polText)]

----------------------------------------------------------------------------
(* URL validation: new URL(url)                                            *)

SpecialSchemes == {L_http, L_https, L_ftp, L_ws, L_wss}

IsSchemeChar(c) == IsAlpha(c) \/ IsDigit(c) \/ c \in {"+", "-", "."}

\* position of the colon ending the scheme, 0 when the text has no scheme
SchemeEnd(u) ==
    LET colons == {i \in 1..Len(u) : u[i] = ":"}
    IN  IF /\ colons # {}
           /\ Min(colons) > 1
           /\ IsAlpha(u[1])
           /\ \A i \in 2..(Min(colons) - 1) : IsSchemeChar(u[i])
        THEN Min(colons)
        ELSE 0

\* the host of a special-scheme URL: what follows the slashes after the scheme, up to
\* the path, query or fragment
HostOf(u) ==
    LET e == SchemeEnd(u)
        from == Min({j \in (e + 1)..(Len(u) + 1) : j = Len(u) + 1 \/ u[j] \notin {"/", "\\"}})
        to == Min({j \in from..(Len(u) + 1) :
                      j = Len(u) + 1 \/ u[j] \in {"/", "\\", "?", "#"}})
    IN  SubSeq(u, from, to - 1)

\* new URL(raw) does not throw: an absolute URL with a scheme and, for a special scheme,
\* a non-empty host without forbidden characters
URLParses(raw) ==
    LET u == Trim(raw)
        e == SchemeEnd(u)
    IN  /\ e > 0
        /\ LowerText(SubSeq(u, 1, e - 1)) \in SpecialSchemes
               => /\ HostOf(u) # <<>>
                  /\ \A i \in 1..Len(HostOf(u)) :
                         HostOf(u)[i] \notin {" ", "<", ">", "[", "]", "^", "|", "%"}

\* mutant: an unknown url falls back to the first test case
TEST_CASES_Default(u) ==
    IF u = UrlConflict
    THEN Some([productText |-> ConflictProductText, policyText |-> ConflictPolicyText])
    ELSE IF u = UrlUnclear
    THEN Some([productText |-> UnclearProductText, policyText |-> UnclearPolicyText])
    ELSE Some([productText |-> ClearProductText, policyText |-> ClearPolicyText])

TEST_CASES(u) ==
    IF u = UrlClear
    THEN Some([productText |-> ClearProductText, policyText |-> ClearPolicyText])
    ELSE IF u = UrlConflict
    THEN Some([productText |-> ConflictProductText, policyText |-> ConflictPolicyText])
    ELSE IF u = UrlUnclear
    THEN Some([productText |-> UnclearProductText, policyText |-> UnclearPolicyText])
    ELSE Undefined

----------------------------------------------------------------------------
(* mino: runMinoAgent                                                      *)

MaxPages == 1

NoMino == [ok |-> FALSE, error |-> "", productText |-> <<>>, policyPages |-> <<>>]

MinoFailure(message) == [NoMino EXCEPT !.error = message]

\* an entry of policyPages is kept when url and text are non-empty strings
ValidPage(e) ==
    /\ e.url # Undefined
    /\ e.text # Undefined
    /\ Val(e.url) # <<>>
    /\ Val(e.text) # <<>>

\* what runMinoAgent makes of the agent's raw answer resp
runMinoAgent(u, resp) ==
    CASE resp.kind = "no_env" -> MinoFailure("MINO_API_URL or MINO_API_KEY is not set")
      [] resp.kind = "network" -> MinoFailure("fetch failed")
      [] resp.kind = "http" -> MinoFailure("Mino API error: 500")
      [] resp.kind = "no_json" -> MinoFailure("Mino API response did not include JSON data")
      [] resp.kind = "bad_json" -> MinoFailure("Mino API response was not valid JSON")
      [] resp.kind = "json" ->
             [ok |-> TRUE,
              error |-> "",
              productText |-> IF resp.productText # Undefined
                              THEN Val(resp.productText)
                              ELSE <<>>,
              policyPages |-> IF resp.policyPages # Undefined
                              THEN SelectSeq(Val(resp.policyPages), ValidPage)
                              ELSE <<>>]

\* mino.policyPages.map((page) => page.text).join("\n")
RECURSIVE JoinPages(_)
JoinPages(pages) ==
    IF Len(pages) = 0 THEN <<>>
    ELSE IF Len(pages) = 1 THEN Val(pages[1].text)
    ELSE Val(pages[1].text) \o <<"\n">> \o JoinPages(Tail(pages))

\* the raw answers the agent may give; "never" is an endpoint that accepts the request
\* and sends nothing back, so that the fetch of lines 101-105 stays pending
MinoProductTexts == {ClearProductText, ConflictProductText, <<>>}

PageEntries ==
    {[url |-> Some(UrlOther), text |-> Some(ClearPolicyText)],
     [url |-> Some(UrlOther), text |-> Some(ConflictPolicyText)],
     [url |-> Some(UrlOther), text |-> Some(BlankText)],
     [url |-> Some(UrlOther), text |-> Undefined]}

PageLists == UNION {[1..k -> PageEntries] : k \in 0..MaxPages}

MinoResponses ==
    {[kind |-> k, productText |-> Undefined, policyPages |-> Undefined] :
        k \in {"no_env", "network", "http", "no_json", "bad_json", "never"}}
    \cup
    {[kind |-> "json", productText |-> pt, policyPages |-> pp] :
        pt \in {Undefined} \cup {Some(t) : t \in MinoProductTexts},
        pp \in {Undefined} \cup {Some(l) : l \in PageLists}}

----------------------------------------------------------------------------
(* analyzePipeline: analyzeProduct                                         *)

NoFacts ==
    [returnsDays |-> Undefined, returnsAllowed |-> Undefined, warrantyMonths |-> Undefined,
     warrantyProvided |-> Undefined, stockStatus |-> Undefined, priceValue |-> Undefined,
     priceGuarantee |-> Undefined, pricePolicy |-> Undefined, stockWarning |-> Undefined]

NoRules == [flags |-> <<>>, verdict |-> ""]

AllKeys ==
    {"verdict", "flags", "explanations", "processingMs", "steps", "insight", "details",
     "previewImage"}

\* nothing returned yet
NoOutcome ==
    [kind |-> "none", error |-> "", verdict |-> "", flags |-> <<>>, explanations |-> <<>>,
     steps |-> <<>>, insight |-> Undefined, details |-> Undefined, keys |-> {}]

\* the invocation rejected with an error
Threw(message) == [NoOutcome EXCEPT !.kind = "threw", !.error = message]

\* a returned object with the given keys; insight and details are Undefined for null/absent
Result(verdict, flags, expl, trace, insight, details, keys) ==
    [kind |-> "result", error |-> "", verdict |-> verdict, flags |-> flags,
     explanations |-> expl, steps |-> trace, insight |-> insight, details |-> details,
     keys |-> keys]

DefaultOptions == [onStep |-> FALSE, emitValidationStep |-> TRUE]

\* a step pushed directly (no durationMs)
Step(name, status, detail) ==
    [name |-> name, status |-> status, detail |-> detail, timed |-> FALSE]

\* mutant: a finished stage is recorded with a detail message
TrackDone_WithDetail(name) ==
    [name |-> name, status |-> "done", detail |-> Some("ok"), timed |-> TRUE]

\* the step trackStep pushes when the task returns
TrackDone(name) ==
    [name |-> name, status |-> "done", detail |-> Undefined, timed |-> TRUE]

\* the step trackStep pushes when the task throws an Error with the given message
TrackFailed(name, message) ==
    [name |-> name, status |-> "failed", detail |-> Some(message), timed |-> TRUE]

\* the answers drawn when two invocations run side by side: a failure, an answer that
\* never comes, and a page set with a contradiction
PairMinoResponses ==
    {[kind |-> "network", productText |-> Undefined, policyPages |-> Undefined],
     [kind |-> "never", productText |-> Undefined, policyPages |-> Undefined],
     [kind |-> "json", productText |-> Some(ConflictProductText),
      policyPages |-> Some(<<[url |-> Some(UrlOther), text |-> Some(ConflictPolicyText)]>>)]}

MinoAnswers == IF entry = "pair" THEN PairMinoResponses ELSE MinoResponses

\* mutant: the environment test always takes the production branch
IsProduction_Always == TRUE

\* process.env.NODE_ENV === "production"
IsProduction == nodeEnv = "production"

\* mutant: only the emptiness test, the url is never parsed
ValidationFailure_NoParse(u) ==
    IF u = <<>> THEN Some("Missing URL") ELSE Undefined

\* why the url is rejected (the detail of the failed step), Undefined when it is accepted
ValidationFailure(u) ==
    IF u = <<>> THEN Some("Missing URL")
    ELSE IF ~URLParses(u) THEN Some("Invalid URL")
    ELSE Undefined

\* the events sent by a step of a handler
NewEvents == SubSeq(emitted', Len(emitted) + 1, Len(emitted'))

\* the trace steps pushed by a step of a handler (none when a fresh trace is started)
NewSteps ==
    IF Len(steps') > Len(steps) THEN SubSeq(steps', Len(steps) + 1, Len(steps')) ELSE <<>>

LogEvents == [i \in 1..Len(NewEvents) |-> <<"event", NewEvents[i]>>]

LogSteps == [i \in 1..Len(NewSteps) |-> <<"step", NewSteps[i].name>>]

\* mutant: the trace step is pushed before the stage is announced
Logged_StepsFirst == log' = log \o LogSteps \o LogEvents

\* every stage calls sendStep first and trackStep (or steps.push) after it; the order is
\* recorded for a single run
Logged == log' = IF entry = "pair" THEN log ELSE log \o LogEvents \o LogSteps

\* the sink throws when it is called: the stream's controller refuses an event once the
\* reader is gone
SinkFails == options.onStep /\ consumer = "gone"

\* sendStep: the events reach the sink only when options.onStep is given
sendStep(names) == IF options.onStep THEN emitted \o names ELSE emitted

\* respond(flags) with the trace as it stands after pushing last
respond(flags, trace) ==
    Result("unclear", flags, explainFlags(flags), trace, Undefined,
           Some(buildProductDetails(<<>>, <<>>, flags)), AllKeys)

\* lines 162-183: announce and validate the url
ValidateUrl ==
    /\ pc = "start"
    /\ ~(options.emitValidationStep /\ SinkFails)
    /\ emitted' = IF options.emitValidationStep
                  THEN sendStep(<<"validate_input">>)
                  ELSE emitted
    /\ IF ValidationFailure(url) # Undefined
       THEN /\ steps' = Append(steps, Step("Validate URL", "failed", ValidationFailure(url)))
            /\ outcome' = respond(<<"invalid_url">>, steps')
            /\ pc' = "returned"
       ELSE /\ steps' = Append(steps, Step("Validate URL", "done", Undefined))
            /\ outcome' = outcome
            /\ pc' = "validated"
    /\ UNCHANGED <<nodeEnv, entry, request, response, closed, minoCalls, handler, url,
                   options, mino, productText, policyText, claims, policy, rules,
                   explanations>>
    /\ Logged
    /\ UNCHANGED <<other, page, consumer>>

\* mutant: an unknown test url is recorded as failed and the run goes on
LoadTestCase_GoesOn ==
    /\ pc = "validated"
    /\ ~IsProduction
    /\ IF TEST_CASES(url) = Undefined
       THEN /\ steps' = Append(steps, Step("Load test case", "failed",
                                           Some("Unknown test URL")))
            /\ UNCHANGED <<productText, policyText>>
       ELSE /\ steps' = Append(steps, Step("Load test case", "done", Undefined))
            /\ productText' = Val(TEST_CASES(url)).productText
            /\ policyText' = Val(TEST_CASES(url)).policyText
    /\ outcome' = outcome
    /\ pc' = "extract_claims"
    /\ UNCHANGED <<nodeEnv, entry, request, response, emitted, closed, minoCalls, handler,
                   url, options, mino, claims, policy, rules, explanations>>
    /\ Logged
    /\ UNCHANGED <<other, page, consumer>>

\* lines 185-195: outside production only the test URLs are served
LoadTestCase ==
    /\ pc = "validated"
    /\ ~IsProduction
    /\ IF TEST_CASES(url) = Undefined
       THEN /\ steps' = Append(steps, Step("Load test case", "failed",
                                           Some("Unknown test URL")))
            /\ outcome' = respond(<<"dev_only">>, steps')
            /\ pc' = "returned"
            /\ UNCHANGED <<productText, policyText>>
       ELSE /\ steps' = Append(steps, Step("Load test case", "done", Undefined))
            /\ productText' = Val(TEST_CASES(url)).productText
            /\ policyText' = Val(TEST_CASES(url)).policyText
            /\ outcome' = outcome
            /\ pc' = "extract_claims"
    /\ UNCHANGED <<nodeEnv, entry, request, response, emitted, closed, minoCalls, handler,
                   url, options, mino, claims, policy, rules, explanations>>
    /\ Logged
    /\ UNCHANGED <<other, page, consumer>>

\* lines 245-246: trackStep("Fetch Mino data", runMinoAgent); a failure is recorded and
\* thrown on to the caller of analyzeProduct; the fetch carries no timeout and no abort
\* signal, so an answer that never comes leaves the invocation awaiting it
FetchMinoData ==
    /\ pc = "validated"
    /\ IsProduction
    /\ ~SinkFails
    /\ emitted' = sendStep(<<"call_mino">>)
    /\ minoCalls' = minoCalls + 1
    /\ \E resp \in MinoAnswers :
          IF resp.kind = "never"
          THEN /\ pc' = "await_mino"
               /\ UNCHANGED <<mino, steps, outcome>>
          ELSE LET got == runMinoAgent(url, resp)
               IN  IF got.ok
                   THEN /\ mino' = got
                        /\ steps' = Append(steps, TrackDone("Fetch Mino data"))
                        /\ outcome' = outcome
                        /\ pc' = "compile_policy"
                   ELSE /\ mino' = mino
                        /\ steps' = Append(steps, TrackFailed("Fetch Mino data", got.error))
                        /\ outcome' = Threw(got.error)
                        /\ pc' = "threw"
    /\ UNCHANGED <<nodeEnv, entry, request, response, closed, handler, url, options,
                   productText, policyText, claims, policy, rules, explanations>>
    /\ Logged
    /\ UNCHANGED <<other, page, consumer>>

\* mutant: the policy text is compiled and claim extraction is skipped
CompilePolicyText_SkipsClaims ==
    /\ pc = "compile_policy"
    /\ ~SinkFails
    /\ emitted' = sendStep(<<"collect_pages">>)
    /\ policyText' = JoinPages(mino.policyPages)
    /\ productText' = mino.productText
    /\ steps' = Append(steps, TrackDone("Compile policy text"))
    /\ pc' = "extract_policy"
    /\ UNCHANGED <<nodeEnv, entry, request, response, closed, minoCalls, handler, url,
                   options, mino, claims, policy, rules, explanations, outcome>>
    /\ Logged
    /\ UNCHANGED <<other, page, consumer>>

\* lines 248-251
CompilePolicyText ==
    /\ pc = "compile_policy"
    /\ ~SinkFails
    /\ emitted' = sendStep(<<"collect_pages">>)
    /\ policyText' = JoinPages(mino.policyPages)
    /\ productText' = mino.productText
    /\ steps' = Append(steps, TrackDone("Compile policy text"))
    /\ pc' = "extract_claims"
    /\ UNCHANGED <<nodeEnv, entry, request, response, closed, minoCalls, handler, url,
                   options, mino, claims, policy, rules, explanations, outcome>>
    /\ Logged
    /\ UNCHANGED <<other, page, consumer>>

\* lines 197-200 and 253-256
ExtractClaims ==
    /\ pc = "extract_claims"
    /\ ~SinkFails
    /\ emitted' = sendStep(<<"extract_rules">>)
    /\ claims' = extractClaims(productText)
    /\ steps' = Append(steps, TrackDone("Extract claims"))
    /\ pc' = "extract_policy"
    /\ UNCHANGED <<nodeEnv, entry, request, response, closed, minoCalls, handler, url,
                   options, mino, productText, policyText, policy, rules, explanations,
                   outcome>>
    /\ Logged
    /\ UNCHANGED <<other, page, consumer>>

\* lines 201-203 and 257-259
ExtractPolicy ==
    /\ pc = "extract_policy"
    /\ policy' = extractPolicy(policyText)
    /\ steps' = Append(steps, TrackDone("Extract policy"))
    /\ pc' = "detect"
    /\ UNCHANGED <<nodeEnv, entry, request, response, emitted, closed, minoCalls, handler,
                   url, options, mino, productText, policyText, claims, rules,
                   explanations, outcome>>
    /\ Logged
    /\ UNCHANGED <<other, page, consumer>>

\* lines 205-209 and 261-265
DetectContradictions ==
    /\ pc = "detect"
    /\ ~SinkFails
    /\ emitted' = sendStep(<<"parse_documents", "analyze_rules">>)
    /\ rules' = detectContradictions(claims, policy)
    /\ steps' = Append(steps, TrackDone("Detect contradictions"))
    /\ pc' = "explain"
    /\ UNCHANGED <<nodeEnv, entry, request, response, closed, minoCalls, handler, url,
                   options, mino, productText, policyText, claims, policy, explanations,
                   outcome>>
    /\ Logged
    /\ UNCHANGED <<other, page, consumer>>

\* lines 210-212 and 266-268
ExplainFlags ==
    /\ pc = "explain"
    /\ explanations' = explainFlags(rules.flags)
    /\ steps' = Append(steps, TrackDone("Explain flags"))
    /\ pc' = "finalize"
    /\ UNCHANGED <<nodeEnv, entry, request, response, emitted, closed, minoCalls, handler,
                   url, options, mino, productText, policyText, claims, policy, rules,
                   outcome>>
    /\ Logged
    /\ UNCHANGED <<other, page, consumer>>

\* mutant: the insight is built whatever the flags
WantsInsight_Always == TRUE

\* mutant: a run that reports to a sink builds no insight
WantsInsight_NotWithSink ==
    /\ ~options.onStep
    /\ IF ~IsProduction
       THEN Len(rules.flags) = 0
       ELSE Len(rules.flags) = 0 \/ Trim(policyText) = <<>>

\* whether the insight is built: lines 215-216 (test case) and 271-272 (production)
WantsInsight ==
    IF ~IsProduction
    THEN Len(rules.flags) = 0
    ELSE Len(rules.flags) = 0 \/ Trim(policyText) = <<>>

\* lines 213-242 and 269-298: compose the AnalyzeResult
Finalize ==
    /\ pc = "finalize"
    /\ ~SinkFails
    /\ emitted' = sendStep(<<"finalize">>)
    /\ outcome' = Result(rules.verdict, rules.flags, explanations, steps,
                         IF WantsInsight
                         THEN Some(buildProductInsight(productText, policyText, claims,
                                                       policy))
                         ELSE Undefined,
                         Some(buildProductDetails(productText, policyText, rules.flags)),
                         AllKeys)
    /\ pc' = "returned"
    /\ UNCHANGED <<nodeEnv, entry, request, response, closed, minoCalls, handler, url,
                   options, steps, mino, productText, policyText, claims, policy, rules,
                   explanations>>
    /\ Logged
    /\ UNCHANGED <<other, page, consumer>>

\* lines 115-118: sendStep calls options.onStep outside every try, so what the sink
\* throws is thrown by analyzeProduct; the stage that was announced does not run and no
\* trace step is pushed
SendStepThrows ==
    /\ \/ pc = "start" /\ options.emitValidationStep
       \/ pc = "validated" /\ IsProduction
       \/ pc \in {"compile_policy", "extract_claims", "detect", "finalize"}
    /\ SinkFails
    /\ pc' = "threw"
    /\ outcome' = Threw("Invalid state")
    /\ UNCHANGED <<nodeEnv, entry, request, response, emitted, closed, minoCalls, handler,
                   url, options, steps, mino, productText, policyText, claims, policy,
                   rules, explanations, log, other, page, consumer>>

analyzeProduct ==
    \/ ValidateUrl
    \/ LoadTestCase
    \/ FetchMinoData
    \/ CompilePolicyText
    \/ ExtractClaims
    \/ ExtractPolicy
    \/ DetectContradictions
    \/ ExplainFlags
    \/ Finalize

----------------------------------------------------------------------------
(* Entry points                                                            *)

Urls == {<<>>, UrlInvalid, UrlClear, UrlConflict, UrlUnclear, UrlOther}

\* a fresh invocation analyzeProduct(u, opts)
Invoke(u, opts) ==
    /\ url' = u
    /\ options' = opts
    /\ pc' = "start"
    /\ steps' = <<>>
    /\ mino' = NoMino
    /\ productText' = <<>>
    /\ policyText' = <<>>
    /\ claims' = NoFacts
    /\ policy' = NoFacts
    /\ rules' = NoRules
    /\ explanations' = <<>>
    /\ outcome' = NoOutcome

\* the locals of an invocation: its arguments, its position and what lines 112-113 and
\* the stages bind
Locals ==
    [url |-> url, options |-> options, pc |-> pc, steps |-> steps, mino |-> mino,
     productText |-> productText, policyText |-> policyText, claims |-> claims,
     policy |-> policy, rules |-> rules, explanations |-> explanations,
     outcome |-> outcome]

\* the locals of an invocation analyzeProduct(u) that has not run yet
Fresh(u) ==
    [url |-> u, options |-> DefaultOptions, pc |-> "start", steps |-> <<>>,
     mino |-> NoMino, productText |-> <<>>, policyText |-> <<>>, claims |-> NoFacts,
     policy |-> NoFacts, rules |-> NoRules, explanations |-> <<>>, outcome |-> NoOutcome]

\* the suspended invocation is resumed with the locals l
Resume(l) ==
    /\ url' = l.url
    /\ options' = l.options
    /\ pc' = l.pc
    /\ steps' = l.steps
    /\ mino' = l.mino
    /\ productText' = l.productText
    /\ policyText' = l.policyText
    /\ claims' = l.claims
    /\ policy' = l.policy
    /\ rules' = l.rules
    /\ explanations' = l.explanations
    /\ outcome' = l.outcome

\* a direct caller of analyzeProduct receives what it returned or threw
LibSettle ==
    /\ entry = "lib"
    /\ handler = "await"
    /\ pc \in {"returned", "threw"}
    /\ response' = outcome
    /\ handler' = "done"
    /\ UNCHANGED <<nodeEnv, entry, request, emitted, closed, minoCalls, url, options, pc,
                   steps, mino, productText, policyText, claims, policy, rules,
                   explanations, outcome>>
    /\ Logged
    /\ UNCHANGED <<other, page, consumer>>

(* fetchPage: fetchPageHtml                                                *)

\* fetchPageHtml has not been called
NoPage ==
    [pc |-> "idle", timer |-> "none", aborted |-> FALSE, rejected |-> FALSE,
     blocked |-> FALSE, html |-> Undefined]

\* lines 10-14: the timer is armed and the request is sent with the abort signal
PageRequested == [NoPage EXCEPT !.pc = "fetching", !.timer = "armed"]

\* what the network does with the request: a page, a page with an empty body, a
\* non-success status, a failed connection, a body that fails while it is read
FetchAnswers == {"html", "empty", "status", "network", "body"}

SampleHtml == <<"<", "p", ">">>

\* mutant: the try without its catch clause
fetchPageHtml_NoCatch(p, answer) ==
    LET settled == [p EXCEPT !.pc = "settled", !.timer = "cleared"]
    IN  IF p.aborted \/ answer \in {"network", "body"}
        THEN [settled EXCEPT !.rejected = TRUE]
        ELSE IF answer = "status"
        THEN [settled EXCEPT !.blocked = TRUE]
        ELSE [settled EXCEPT !.html = Some(IF answer = "html" THEN SampleHtml ELSE <<>>)]

\* lines 13-36: an aborted request, a failed connection and a failed body read throw
\* inside the try and are caught (blocked); a non-success status is blocked; otherwise
\* the body is returned. The finally clause clears the timer on every path.
fetchPageHtml(p, answer) ==
    LET settled == [p EXCEPT !.pc = "settled", !.timer = "cleared"]
    IN  IF p.aborted \/ answer \in {"network", "body"}
        THEN [settled EXCEPT !.blocked = TRUE]
        ELSE IF answer = "status"
        THEN [settled EXCEPT !.blocked = TRUE]
        ELSE [settled EXCEPT !.html = Some(IF answer = "html" THEN SampleHtml ELSE <<>>)]

\* line 11: the timer set by setTimeout fires and aborts the request
TimerFires ==
    /\ page.timer = "armed"
    /\ page' = [page EXCEPT !.timer = "fired", !.aborted = TRUE]
    /\ UNCHANGED <<nodeEnv, entry, request, response, emitted, closed, minoCalls, handler,
                   url, options, pc, steps, mino, productText, policyText, claims, policy,
                   rules, explanations, outcome, log, other, consumer>>

(* analyze-stream: streamAnalysis                                          *)

\* lines 37-56: an empty or unparsable url is answered by analyzeProduct("")
StreamStart ==
    /\ entry = "stream"
    /\ handler = "start"
    /\ IF request.url = <<>> \/ ~URLParses(request.url)
       THEN /\ emitted' = Append(emitted, "validate_input")
            /\ Invoke(<<>>, DefaultOptions)
            /\ handler' = "await"
            /\ page' = page
       ELSE /\ emitted' = emitted \o <<"validate_input", "fetch_product_page">>
            /\ handler' = "fetch_page"
            /\ page' = PageRequested
            /\ UNCHANGED <<url, options, pc, steps, mino, productText, policyText, claims,
                           policy, rules, explanations, outcome>>
    /\ UNCHANGED <<nodeEnv, entry, request, response, closed, minoCalls>>
    /\ Logged
    /\ UNCHANGED <<other, consumer>>

\* mutant: the pipeline is left to announce the validation a second time
StreamFetchPage_EmitsValidation ==
    /\ entry = "stream"
    /\ handler = "fetch_page"
    /\ \E answer \in FetchAnswers : page' = fetchPageHtml(page, answer)
    /\ emitted' = Append(emitted, "extract_product_info")
    /\ Invoke(request.url, [onStep |-> TRUE, emitValidationStep |-> TRUE])
    /\ handler' = "await"
    /\ UNCHANGED <<nodeEnv, entry, request, response, closed, minoCalls>>
    /\ Logged
    /\ UNCHANGED <<other, consumer>>

\* lines 57-78: fetchPageHtml resolves; blocked or not, the same event is sent and the
\* pipeline is called with the stream as its sink. When the event cannot be written the
\* catch of line 82 takes over.
StreamFetchPage ==
    /\ entry = "stream"
    /\ handler = "fetch_page"
    /\ \E answer \in FetchAnswers : page' = fetchPageHtml(page, answer)
    /\ IF consumer = "gone"
       THEN /\ emitted' = emitted
            /\ Invoke(<<>>, DefaultOptions)
            /\ handler' = "await_fallback"
       ELSE /\ emitted' = Append(emitted, "extract_product_info")
            /\ Invoke(request.url, [onStep |-> TRUE, emitValidationStep |-> FALSE])
            /\ handler' = "await"
    /\ UNCHANGED <<nodeEnv, entry, request, response, closed, minoCalls>>
    /\ Logged
    /\ UNCHANGED <<other, consumer>>

\* lines 41-42, 50-51, 80-81 and 84-85: the done event carries the result, then the
\* stream is closed
StreamDone ==
    /\ entry = "stream"
    /\ handler \in {"await", "await_fallback"}
    /\ pc = "returned"
    /\ IF consumer = "connected"
       THEN /\ emitted' = Append(emitted, "done")
            /\ response' = outcome
            /\ closed' = TRUE
            /\ handler' = "done"
            /\ UNCHANGED <<url, options, pc, steps, mino, productText, policyText, claims,
                           policy, rules, explanations, outcome>>
       ELSE IF handler = "await"
       THEN \* sendEvent throws inside the try: the catch of line 82 runs the fallback
            /\ Invoke(<<>>, DefaultOptions)
            /\ handler' = "await_fallback"
            /\ UNCHANGED <<emitted, response, closed>>
       ELSE \* sendEvent throws inside the catch: start() rejects
            /\ handler' = "rejected"
            /\ UNCHANGED <<emitted, response, closed, url, options, pc, steps, mino,
                           productText, policyText, claims, policy, rules, explanations,
                           outcome>>
    /\ UNCHANGED <<nodeEnv, entry, request, minoCalls>>
    /\ Logged
    /\ UNCHANGED <<other, page, consumer>>

\* lines 82-83: whatever was thrown, the fallback is analyzeProduct("")
StreamCatch ==
    /\ entry = "stream"
    /\ handler = "await"
    /\ pc = "threw"
    /\ Invoke(<<>>, DefaultOptions)
    /\ handler' = "await_fallback"
    /\ UNCHANGED <<nodeEnv, entry, request, response, emitted, closed, minoCalls>>
    /\ Logged
    /\ UNCHANGED <<other, page, consumer>>

streamAnalysis == StreamStart \/ StreamFetchPage \/ StreamDone \/ StreamCatch

\* the reader of the stream goes away while the handler awaits the network: during
\* fetchPageHtml, or during the content-retrieval call (whose answer, when one came, has
\* not been processed yet). Every enqueue on the controller throws from then on.
Disconnect ==
    /\ entry = "stream"
    /\ consumer = "connected"
    /\ \/ handler = "fetch_page"
       \/ handler = "await" /\ pc \in {"compile_policy", "threw", "await_mino"}
    /\ consumer' = "gone"
    /\ UNCHANGED <<nodeEnv, entry, request, response, emitted, closed, minoCalls, handler,
                   url, options, pc, steps, mino, productText, policyText, claims, policy,
                   rules, explanations, outcome, log, other, page>>

(* /api/analyze: POST, the inline pipeline                                 *)

RouteKeys == {"verdict", "flags", "explanations", "processingMs", "steps"}

\* respond(flags): the short answer of the route
RouteRespond(flags, trace) ==
    Result("unclear", flags, explainFlags(flags), trace, Undefined, Undefined, RouteKeys)

RouteUnchanged == <<nodeEnv, entry, request, emitted, closed, options, outcome>>

\* the route answers and is finished
RouteAnswer(r) ==
    /\ response' = r
    /\ pc' = "r_done"
    /\ handler' = "done"

\* lines 79-88: parse the body and trim its url
RouteParseRequest ==
    /\ pc = "r_parse"
    /\ IF request.parses
       THEN /\ steps' = Append(steps, TrackDone("Parse request"))
            /\ url' = Trim(request.url)
            /\ pc' = "r_validate"
            /\ UNCHANGED <<response, handler>>
       ELSE /\ steps' = Append(steps, TrackFailed("Parse request", "Unexpected token"))
            /\ url' = url
            /\ RouteAnswer(RouteRespond(<<"analysis_failed">>, steps'))
    /\ UNCHANGED <<minoCalls, mino, productText, policyText, claims, policy, rules,
                   explanations>>
    /\ UNCHANGED RouteUnchanged
    /\ Logged
    /\ UNCHANGED <<other, page, consumer>>

\* lines 89-108
RouteValidateUrl ==
    /\ pc = "r_validate"
    /\ IF ValidationFailure(url) # Undefined
       THEN /\ steps' = Append(steps, Step("Validate URL", "failed", ValidationFailure(url)))
            /\ RouteAnswer(RouteRespond(<<"invalid_url">>, steps'))
       ELSE /\ steps' = Append(steps, Step("Validate URL", "done", Undefined))
            /\ pc' = "r_validated"
            /\ UNCHANGED <<response, handler>>
    /\ UNCHANGED <<url, minoCalls, mino, productText, policyText, claims, policy, rules,
                   explanations>>
    /\ UNCHANGED RouteUnchanged
    /\ Logged
    /\ UNCHANGED <<other, page, consumer>>

\* lines 111-121
RouteLoadTestCase ==
    /\ pc = "r_validated"
    /\ ~IsProduction
    /\ IF TEST_CASES(url) = Undefined
       THEN /\ steps' = Append(steps, Step("Load test case", "failed",
                                           Some("Unknown test URL")))
            /\ RouteAnswer(RouteRespond(<<"dev_only">>, steps'))
            /\ UNCHANGED <<productText, policyText>>
       ELSE /\ steps' = Append(steps, Step("Load test case", "done", Undefined))
            /\ productText' = Val(TEST_CASES(url)).productText
            /\ policyText' = Val(TEST_CASES(url)).policyText
            /\ pc' = "r_extract_claims"
            /\ UNCHANGED <<response, handler>>
    /\ UNCHANGED <<url, minoCalls, mino, claims, policy, rules, explanations>>
    /\ UNCHANGED RouteUnchanged
    /\ Logged
    /\ UNCHANGED <<other, page, consumer>>

\* lines 164 and 208-210: a failure is recorded and caught by the route's own catch
RouteFetchMinoData ==
    /\ pc = "r_validated"
    /\ IsProduction
    /\ minoCalls' = minoCalls + 1
    /\ \E resp \in MinoResponses :
          IF resp.kind = "never"
          THEN /\ pc' = "r_await_mino"
               /\ UNCHANGED <<mino, steps, response, handler>>
          ELSE LET got == runMinoAgent(url, resp)
               IN  IF got.ok
                   THEN /\ mino' = got
                        /\ steps' = Append(steps, TrackDone("Fetch Mino data"))
                        /\ pc' = "r_compile_policy"
                        /\ UNCHANGED <<response, handler>>
                   ELSE /\ mino' = mino
                        /\ steps' = Append(steps, TrackFailed("Fetch Mino data", got.error))
                        /\ RouteAnswer(RouteRespond(<<"analysis_failed">>, steps'))
    /\ UNCHANGED <<url, productText, policyText, claims, policy, rules, explanations>>
    /\ UNCHANGED RouteUnchanged
    /\ Logged
    /\ UNCHANGED <<other, page, consumer>>

\* lines 165-167
RouteCompilePolicyText ==
    /\ pc = "r_compile_policy"
    /\ policyText' = JoinPages(mino.policyPages)
    /\ productText' = mino.productText
    /\ steps' = Append(steps, TrackDone("Compile policy text"))
    /\ pc' = "r_extract_claims"
    /\ UNCHANGED <<response, handler, url, minoCalls, mino, claims, policy, rules,
                   explanations>>
    /\ UNCHANGED RouteUnchanged
    /\ Logged
    /\ UNCHANGED <<other, page, consumer>>

\* lines 122-124 and 169-171
RouteExtractClaims ==
    /\ pc = "r_extract_claims"
    /\ claims' = extractClaims(productText)
    /\ steps' = Append(steps, TrackDone("Extract claims"))
    /\ pc' = "r_extract_policy"
    /\ UNCHANGED <<response, handler, url, minoCalls, mino, productText, policyText,
                   policy, rules, explanations>>
    /\ UNCHANGED RouteUnchanged
    /\ Logged
    /\ UNCHANGED <<other, page, consumer>>

\* lines 125-127 and 172-174
RouteExtractPolicy ==
    /\ pc = "r_extract_policy"
    /\ policy' = extractPolicy(policyText)
    /\ steps' = Append(steps, TrackDone("Extract policy"))
    /\ pc' = "r_detect"
    /\ UNCHANGED <<response, handler, url, minoCalls, mino, productText, policyText,
                   claims, rules, explanations>>
    /\ UNCHANGED RouteUnchanged
    /\ Logged
    /\ UNCHANGED <<other, page, consumer>>

\* lines 128-130 and 175-177
RouteDetectContradictions ==
    /\ pc = "r_detect"
    /\ rules' = detectContradictions(claims, policy)
    /\ steps' = Append(steps, TrackDone("Detect contradictions"))
    /\ pc' = "r_explain"
    /\ UNCHANGED <<response, handler, url, minoCalls, mino, productText, policyText,
                   claims, policy, explanations>>
    /\ UNCHANGED RouteUnchanged
    /\ Logged
    /\ UNCHANGED <<other, page, consumer>>

\* lines 131-133 and 178-180
RouteExplainFlags ==
    /\ pc = "r_explain"
    /\ explanations' = explainFlags(rules.flags)
    /\ steps' = Append(steps, TrackDone("Explain flags"))
    /\ pc' = "r_finalize"
    /\ UNCHANGED <<response, handler, url, minoCalls, mino, productText, policyText,
                   claims, policy, rules>>
    /\ UNCHANGED RouteUnchanged
    /\ Logged
    /\ UNCHANGED <<other, page, consumer>>

\* lines 135-161 and 181-207: the full answer (without previewImage)
RouteFinalize ==
    /\ pc = "r_finalize"
    /\ RouteAnswer(Result(rules.verdict, rules.flags, explanations, steps,
                          IF WantsInsight
                          THEN Some(buildProductInsight(productText, policyText, claims,
                                                        policy))
                          ELSE Undefined,
                          Some(buildProductDetails(productText, policyText, rules.flags)),
                          AllKeys \ {"previewImage"}))
    /\ UNCHANGED <<steps, url, minoCalls, mino, productText, policyText, claims, policy,
                   rules, explanations>>
    /\ UNCHANGED RouteUnchanged
    /\ Logged
    /\ UNCHANGED <<other, page, consumer>>

RoutePost ==
    \/ RouteParseRequest
    \/ RouteValidateUrl
    \/ RouteLoadTestCase
    \/ RouteFetchMinoData
    \/ RouteCompilePolicyText
    \/ RouteExtractClaims
    \/ RouteExtractPolicy
    \/ RouteDetectContradictions
    \/ RouteExplainFlags
    \/ RouteFinalize

----------------------------------------------------------------------------
(* The requests served                                                     *)

OptionSets ==
    {[onStep |-> FALSE, emitValidationStep |-> TRUE],
     [onStep |-> TRUE, emitValidationStep |-> TRUE],
     [onStep |-> TRUE, emitValidationStep |-> FALSE]}

Requests(e) ==
    {[parses |-> TRUE, url |-> u] : u \in Urls}
    \cup (IF e = "route" THEN {[parses |-> FALSE, url |-> <<>>]} ELSE {})

Init ==
    /\ nodeEnv \in {"production", "development"}
    /\ entry \in {"lib", "stream", "route"}
    /\ request \in Requests(entry)
    /\ options \in (IF entry = "lib" THEN OptionSets ELSE {DefaultOptions})
    /\ url = IF entry = "lib" THEN request.url ELSE <<>>
    /\ pc = CASE entry = "lib" -> "start"
              [] entry = "stream" -> "idle"
              [] entry = "route" -> "r_parse"
    /\ handler = CASE entry = "lib" -> "await"
                   [] entry = "stream" -> "start"
                   [] entry = "route" -> "route"
    /\ response = NoOutcome
    /\ emitted = <<>>
    /\ closed = FALSE
    /\ minoCalls = 0
    /\ steps = <<>>
    /\ mino = NoMino
    /\ productText = <<>>
    /\ policyText = <<>>
    /\ claims = NoFacts
    /\ policy = NoFacts
    /\ rules = NoRules
    /\ explanations = <<>>
    /\ outcome = NoOutcome
    /\ log = <<>>
    /\ other = Fresh(<<>>)
    /\ page = NoPage
    /\ consumer = "connected"

Next ==
    \/ analyzeProduct
    \/ LibSettle
    \/ TimerFires
    \/ streamAnalysis
    \/ RoutePost

Spec == Init /\ [][Next]_vars

\* the positions of analyzeProduct and of the inline route, and those of the callers
PcLabels ==
    {"idle", "start", "validated", "await_mino", "compile_policy", "extract_claims",
     "extract_policy", "detect", "explain", "finalize", "returned", "threw",
     "r_parse", "r_validate", "r_validated", "r_await_mino", "r_compile_policy",
     "r_extract_claims", "r_extract_policy", "r_detect", "r_explain", "r_finalize",
     "r_done"}

HandlerLabels ==
    {"start", "fetch_page", "await", "await_fallback", "done", "rejected", "route"}

\* some continuation is ready to run: the disjunction of the guards of the actions of
\* Next. A settled invocation whose caller has answered, and a call that awaits an
\* answer that has not come, are not running.
Running ==
    \/ pc \in {"start", "validated", "compile_policy", "extract_claims", "extract_policy",
                "detect", "explain", "finalize"}
    \/ pc \in {"r_parse", "r_validate", "r_validated", "r_compile_policy",
                "r_extract_claims", "r_extract_policy", "r_detect", "r_explain",
                "r_finalize"}
    \/ entry = "lib" /\ handler = "await" /\ pc \in {"returned", "threw"}
    \/ entry = "stream" /\ handler \in {"start", "fetch_page"}
    \/ entry = "stream" /\ handler \in {"await", "await_fallback"} /\ pc = "returned"
    \/ entry = "stream" /\ handler = "await" /\ pc = "threw"

\* a step of Next seen through the positions: every action of Next moves pc or handler
Progress ==
    /\ Running
    /\ \E p \in PcLabels, h \in HandlerLabels :
          /\ pc' = p
          /\ handler' = h
          /\ <<p, h>> # <<pc, handler>>

\* the event loop runs every continuation that is ready: a ready continuation is not
\* left waiting forever. Nothing forces an awaited answer to arrive.
SpecLive == Spec /\ WF_<<pc, handler>>(Progress)

\* the event stream with a reader that may go away
InitFeed == Init /\ entry = "stream"

NextFeed == analyzeProduct \/ SendStepThrows \/ TimerFires \/ streamAnalysis \/ Disconnect

SpecFeed == InitFeed /\ [][NextFeed]_vars

----------------------------------------------------------------------------
(* Two invocations of analyzeProduct side by side                          *)

PairUrls == {UrlInvalid, UrlClear, UrlConflict, UrlOther}

\* the invocation has nothing left to run
Parked(l) == l.pc \in {"returned", "threw", "await_mino"}

\* mutant: the trace is one array shared by the invocations
Yield_SharedTrace ==
    /\ entry = "pair"
    /\ ~Parked(other)
    /\ other' = Locals
    /\ url' = other.url
    /\ options' = other.options
    /\ pc' = other.pc
    /\ steps' = steps
    /\ mino' = other.mino
    /\ productText' = other.productText
    /\ policyText' = other.policyText
    /\ claims' = other.claims
    /\ policy' = other.policy
    /\ rules' = other.rules
    /\ explanations' = other.explanations
    /\ outcome' = other.outcome
    /\ handler' = IF handler = "first" THEN "second" ELSE "first"
    /\ UNCHANGED <<nodeEnv, entry, request, response, emitted, closed, minoCalls, log, page,
                   consumer>>

\* the running invocation is suspended and the other one resumed; startedAt, steps and
\* everything the stages bind are locals of the call (lines 112-113), so each invocation
\* finds its own again. Switching is allowed between any two stages, which includes
\* every await of trackStep.
Yield ==
    /\ entry = "pair"
    /\ ~Parked(other)
    /\ other' = Locals
    /\ Resume(other)
    /\ handler' = IF handler = "first" THEN "second" ELSE "first"
    /\ UNCHANGED <<nodeEnv, entry, request, response, emitted, closed, minoCalls, log, page,
                   consumer>>

InitPair ==
    /\ nodeEnv \in {"production", "development"}
    /\ entry = "pair"
    /\ request = [parses |-> TRUE, url |-> <<>>]
    /\ handler = "first"
    /\ response = NoOutcome
    /\ emitted = <<>>
    /\ closed = FALSE
    /\ minoCalls = 0
    /\ log = <<>>
    /\ url \in PairUrls
    /\ options = DefaultOptions
    /\ pc = "start"
    /\ steps = <<>>
    /\ mino = NoMino
    /\ productText = <<>>
    /\ policyText = <<>>
    /\ claims = NoFacts
    /\ policy = NoFacts
    /\ rules = NoRules
    /\ explanations = <<>>
    /\ outcome = NoOutcome
    /\ other \in {Fresh(u) : u \in PairUrls}
    /\ page = NoPage
    /\ consumer = "connected"

NextPair == analyzeProduct \/ Yield

SpecPair == InitPair /\ [][NextPair]_vars

----------------------------------------------------------------------------
(* The pure functions on their own: the detector over fact sets built      *)
(* field by field, and the extractors over sample texts                    *)

MaxDays == 1
MaxMonths == 1
MaxPresent == 4

\* ExtractedClaims and ExtractedPolicy are the same type: every field may be present on
\* either side
ClaimFields ==
    {"returnsDays", "returnsAllowed", "warrantyMonths", "warrantyProvided", "stockStatus",
     "priceValue", "priceGuarantee", "pricePolicy", "stockWarning"}

PolicyFields ==
    {"returnsDays", "returnsAllowed", "warrantyMonths", "warrantyProvided", "pricePolicy",
     "stockWarning", "stockStatus", "priceValue", "priceGuarantee"}

FieldValues(f) ==
    CASE f = "returnsDays" -> 0..MaxDays
      [] f = "warrantyMonths" -> 0..MaxMonths
      [] f \in {"returnsAllowed", "warrantyProvided", "priceGuarantee", "stockWarning"} ->
             BOOLEAN
      [] f = "stockStatus" -> {"in_stock", "out_of_stock", "preorder", "backorder"}
      [] f = "priceValue" -> {1999}
      [] f = "pricePolicy" -> {"price_change", "price_guarantee", "price_match"}

Present(f, fields) == Cardinality({k \in fields : f[k] # Undefined})

SampleTexts ==
    {<<>>, BlankText, NoiseText, ClearProductText, ClearPolicyText, ConflictProductText,
     ConflictPolicyText, UnclearProductText, FinalSaleText, ShortReturnsText,
     LongReturnsText, TermsText}

PureInit(start) ==
    /\ nodeEnv = "none"
    /\ entry = "pure"
    /\ request = [parses |-> TRUE, url |-> <<>>]
    /\ options = DefaultOptions
    /\ url = <<>>
    /\ pc = start
    /\ handler = "none"
    /\ response = NoOutcome
    /\ emitted = <<>>
    /\ closed = FALSE
    /\ minoCalls = 0
    /\ steps = <<>>
    /\ mino = NoMino
    /\ claims = NoFacts
    /\ policy = NoFacts
    /\ rules = NoRules
    /\ explanations = <<>>
    /\ outcome = NoOutcome
    /\ log = <<>>
    /\ other = Fresh(<<>>)
    /\ page = NoPage
    /\ consumer = "connected"

PureUnchanged ==
    <<nodeEnv, entry, request, response, emitted, closed, minoCalls, handler, url, options,
      steps, mino, explanations, outcome, log, other, page, consumer>>

InitDetect == PureInit("facts") /\ productText = <<>> /\ policyText = <<>>

\* a field of the claim side becomes present
SetClaimField ==
    /\ pc = "facts"
    /\ Present(claims, ClaimFields) + Present(policy, PolicyFields) < MaxPresent
    /\ \E f \in ClaimFields :
          /\ claims[f] = Undefined
          /\ \E v \in FieldValues(f) : claims' = [claims EXCEPT ![f] = Some(v)]
    /\ UNCHANGED <<pc, policy, rules, productText, policyText>>
    /\ UNCHANGED PureUnchanged

\* a field of the policy side becomes present
SetPolicyField ==
    /\ pc = "facts"
    /\ Present(claims, ClaimFields) + Present(policy, PolicyFields) < MaxPresent
    /\ \E f \in PolicyFields :
          /\ policy[f] = Undefined
          /\ \E v \in FieldValues(f) : policy' = [policy EXCEPT ![f] = Some(v)]
    /\ UNCHANGED <<pc, claims, rules, productText, policyText>>
    /\ UNCHANGED PureUnchanged

\* detectContradictions(claims, policy)
RunDetect ==
    /\ pc \in {"facts", "extracted"}
    /\ rules' = detectContradictions(claims, policy)
    /\ pc' = "detected"
    /\ UNCHANGED <<claims, policy, productText, policyText>>
    /\ UNCHANGED PureUnchanged

NextDetect == SetClaimField \/ SetPolicyField \/ RunDetect

SpecDetect == InitDetect /\ [][NextDetect]_vars

InitExtract ==
    /\ PureInit("texts")
    /\ productText \in SampleTexts
    /\ policyText \in SampleTexts

\* extractClaims(productText) and extractPolicy(policyText)
RunExtract ==
    /\ pc = "texts"
    /\ claims' = extractClaims(productText)
    /\ policy' = extractPolicy(policyText)
    /\ pc' = "extracted"
    /\ UNCHANGED <<rules, productText, policyText>>
    /\ UNCHANGED PureUnchanged

\* mutant: the patterns keep their position between calls (a sticky lastIndex), so the
\* second run starts matching where the first run stopped
RunAgain_StickyPatterns ==
    /\ pc = "detected"
    /\ entry = "pure"
    /\ other' = Locals
    /\ claims' = extractClaims(<<>>)
    /\ policy' = extractPolicy(<<>>)
    /\ rules' = detectContradictions(claims', policy')
    /\ pc' = "rerun"
    /\ UNCHANGED <<nodeEnv, entry, request, response, emitted, closed, minoCalls, handler,
                   url, options, steps, mino, productText, policyText, explanations,
                   outcome, log, page, consumer>>

\* the same two texts are extracted and checked a second time; the first run's results
\* are kept for comparison. The patterns are literals without the g or y flag and the
\* detector reads nothing but its arguments.
RunAgain ==
    /\ pc = "detected"
    /\ entry = "pure"
    /\ other' = Locals
    /\ claims' = extractClaims(productText)
    /\ policy' = extractPolicy(policyText)
    /\ rules' = detectContradictions(claims', policy')
    /\ pc' = "rerun"
    /\ UNCHANGED <<nodeEnv, entry, request, response, emitted, closed, minoCalls, handler,
                   url, options, steps, mino, productText, policyText, explanations,
                   outcome, log, page, consumer>>

NextExtract == RunExtract \/ RunDetect \/ RunAgain

SpecExtract == InitExtract /\ [][NextExtract]_vars

----------------------------------------------------------------------------
(* Properties                                                              *)

TestUrls == {UrlClear, UrlConflict, UrlUnclear}

\* names and statuses of a trace, in order
TraceOf(trace) == [i \in 1..Len(trace) |-> <<trace[i].name, trace[i].status>>]

\* a stage wrapped by trackStep failed
StageFailed(trace) ==
    \E i \in 1..Len(trace) : trace[i].timed /\ trace[i].status = "failed"

Count(flags, f) == Cardinality({i \in 1..Len(flags) : flags[i] = f})

ConflictNames ==
    {"returns_conflict", "warranty_conflict", "stock_conflict", "price_conflict"}

HasFlagIn(flags, names) == \E i \in 1..Len(flags) : flags[i] \in names

\* no extraction or detection has run in the current invocation
NothingExtracted == claims = NoFacts /\ policy = NoFacts /\ rules = NoRules

\* C1: analyzeProduct never throws: every invocation resolves to an AnalyzeResult, and
\* when a stage failed that result has flags exactly [analysis_failed] and verdict unclear.
C1_AnalyzeProductNeverThrows ==
    /\ outcome.kind # "threw"
    /\ (pc = "returned" /\ StageFailed(steps))
           => (outcome.flags = <<"analysis_failed">> /\ outcome.verdict = "unclear")

\* the stream handler took its catch branch after the content-retrieval call failed
StreamFellBack ==
    /\ entry = "stream"
    /\ handler \in {"await_fallback", "done"}
    /\ minoCalls > 0
    /\ ~mino.ok

\* C2: on the stream, when the content-retrieval call or a later stage fails for a
\* syntactically valid url, the done event carries flags [analysis_failed] and verdict
\* unclear.
C2_StreamFailureIsAnalysisFailed ==
    (StreamFellBack /\ handler = "done" /\ request.url # <<>> /\ URLParses(request.url))
        => (response.flags = <<"analysis_failed">> /\ response.verdict = "unclear")

\* the current analyzeProduct invocation was given an empty or unparsable url
InvalidUrlInvocation ==
    /\ entry \in {"lib", "stream"}
    /\ pc # "idle"
    /\ (url = <<>> \/ ~URLParses(url))

\* C3: for an empty or syntactically invalid url analyzeProduct returns flags exactly
\* [invalid_url] with verdict unclear, its trace is the single step "Validate URL" with
\* status failed, and no content retrieval, extraction or detection is run.
C3_InvalidUrlShortCircuits ==
    InvalidUrlInvocation
        => /\ pc \in {"start", "returned"}
           /\ mino = NoMino
           /\ NothingExtracted
           /\ pc = "start" => steps = <<>>
           /\ pc = "returned"
                  => /\ outcome.kind = "result"
                     /\ outcome.flags = <<"invalid_url">>
                     /\ outcome.verdict = "unclear"
                     /\ TraceOf(outcome.steps) = <<<<"Validate URL", "failed">>>>
                     /\ steps = outcome.steps

C3_Witness ==
    /\ entry = "lib"
    /\ pc = "returned"
    /\ url = UrlInvalid
    /\ outcome.flags = <<"invalid_url">>

\* outside production the current invocation (analyzeProduct or the inline route) was
\* given a parsable url that is none of the three test urls
UnknownUrlInDev ==
    /\ nodeEnv = "development"
    /\ url # <<>>
    /\ URLParses(url)
    /\ url \notin TestUrls

\* C4 as stated: outside production every syntactically valid url that is not a test url
\* ends with flags [dev_only], verdict unclear and the trace
\* ["Validate URL" done, "Load test case" failed].
C4_DevOnlyTraceAsStated ==
    (UnknownUrlInDev /\ pc \in {"returned", "r_done"})
        => LET answer == IF pc = "returned" THEN outcome ELSE response
           IN  /\ answer.flags = <<"dev_only">>
               /\ answer.verdict = "unclear"
               /\ TraceOf(answer.steps) =
                      <<<<"Validate URL", "done">>, <<"Load test case", "failed">>>>

\* C4 (amended): outside production every syntactically valid url that is not a test url
\* ends with flags [dev_only] and verdict unclear without any extraction or detection;
\* the trace of analyzeProduct is ["Validate URL" done, "Load test case" failed] and the
\* trace of the inline /api/analyze route is the same two steps after "Parse request" done.
C4_DevOnlyShortCircuits ==
    UnknownUrlInDev
        => /\ NothingExtracted
           /\ pc \in {"start", "validated", "returned", "r_validate", "r_validated", "r_done"}
           /\ pc = "returned"
                  => /\ outcome.flags = <<"dev_only">>
                     /\ outcome.verdict = "unclear"
                     /\ TraceOf(outcome.steps) =
                            <<<<"Validate URL", "done">>, <<"Load test case", "failed">>>>
           /\ pc = "r_done"
                  => /\ response.flags = <<"dev_only">>
                     /\ response.verdict = "unclear"
                     /\ TraceOf(response.steps) =
                            <<<<"Parse request", "done">>, <<"Validate URL", "done">>,
                              <<"Load test case", "failed">>>>

C4_Witness ==
    /\ UnknownUrlInDev
    /\ entry = "lib"
    /\ pc = "returned"
    /\ outcome.flags = <<"dev_only">>

\* C5: outside production the Mino agent is never invoked, whatever the url and the
\* entry point: no call to runMinoAgent, no "Fetch Mino data" step, no call_mino event.
C5_NoMinoOutsideProduction ==
    nodeEnv = "development"
        => /\ minoCalls = 0
           /\ mino = NoMino
           /\ \A i \in 1..Len(steps) : steps[i].name # "Fetch Mino data"
           /\ \A i \in 1..Len(emitted) : emitted[i] # "call_mino"

C5_Witness ==
    /\ nodeEnv = "development"
    /\ handler = "done"
    /\ response.kind = "result"
    /\ response.verdict = "risk"
    /\ minoCalls = 0

\* C6: the verdict of detectContradictions is risk exactly when the flags hold a
\* _conflict flag (whether or not unclear is present); otherwise it is unclear exactly
\* when the flags hold unclear; otherwise it is good exactly when there are no flags.
C6_VerdictFromFlags ==
    pc = "detected"
        => LET conflict == HasFlagIn(rules.flags, ConflictNames)
               unclear == HasFlagIn(rules.flags, {"unclear"})
           IN  /\ rules.verdict = "risk" <=> conflict
               /\ ~conflict => (rules.verdict = "unclear" <=> unclear)
               /\ (~conflict /\ ~unclear) => (rules.verdict = "good" <=> rules.flags = <<>>)

C6_Witness ==
    /\ pc = "detected"
    /\ HasFlagIn(rules.flags, ConflictNames)
    /\ HasFlagIn(rules.flags, {"unclear"})
    /\ rules.verdict = "risk"

\* C7: extracting claims and policy from two empty strings and running the detector
\* yields flags exactly [unclear] and verdict unclear.
C7_EmptyTextsAreUnclear ==
    (pc = "detected" /\ productText = <<>> /\ policyText = <<>>)
        => (rules.flags = <<"unclear">> /\ rules.verdict = "unclear")

\* texts that match none of the patterns
NoEvidenceTexts == {<<>>, BlankText, NoiseText}

\* C8: for empty text or text matching none of the patterns, extractClaims and
\* extractPolicy both return a Fact Set with every field absent.
C8_NoEvidenceAllAbsent ==
    (pc = "extracted" /\ productText \in NoEvidenceTexts /\ policyText \in NoEvidenceTexts)
        => (claims = NoFacts /\ policy = NoFacts)

\* C9 as stated: no flag occurs more than once in the flags of one detection run.
C9_NoDuplicateFlags ==
    pc = "detected"
        => \A f \in ConflictNames \cup {"unclear"} : Count(rules.flags, f) <= 1

\* C9 (amended): in the flags of one detection run unclear, stock_conflict and
\* price_conflict occur at most once; returns_conflict and warranty_conflict occur at
\* most twice, twice when two rules of the topic hold at once.
C9_BoundedDuplicates ==
    pc = "detected"
        => /\ Count(rules.flags, "unclear") <= 1
           /\ Count(rules.flags, "stock_conflict") <= 1
           /\ Count(rules.flags, "price_conflict") <= 1
           /\ Count(rules.flags, "returns_conflict") <= 2
           /\ Count(rules.flags, "warranty_conflict") <= 2

C9_Witness ==
    /\ pc = "detected"
    /\ claims.returnsDays # Undefined
    /\ claims.returnsAllowed = Some(TRUE)
    /\ policy.returnsAllowed = Some(FALSE)
    /\ Count(rules.flags, "returns_conflict") = 2

\* number of topics that are claimed but not covered by the policy
UncoveredTopics ==
    Cardinality({t \in {"returns", "warranty", "stock", "price"} :
        \/ t = "returns" /\ returnsClaimed(claims) /\ ~returnsPolicy(policy)
        \/ t = "warranty" /\ warrantyClaimed(claims) /\ ~warrantyPolicy(policy)
        \/ t = "stock" /\ stockClaimed(claims) /\ ~stockPolicy(policy)
        \/ t = "price" /\ priceClaimed(claims) /\ ~pricePolicy(policy)})

\* C10: the flags of one detection run hold unclear at most once, also when several
\* topics are claimed but not covered and when neither side carries any fact.
C10_UnclearAtMostOnce ==
    pc = "detected"
        => /\ Count(rules.flags, "unclear") <= 1
           /\ (UncoveredTopics > 0 \/ (claims = NoFacts /\ policy = NoFacts))
                  => Count(rules.flags, "unclear") = 1

C10_Witness ==
    /\ pc = "detected"
    /\ UncoveredTopics >= 2
    /\ Count(rules.flags, "unclear") = 1

\* the AnalyzeResult objects produced so far: what analyzeProduct returned and what the
\* entry point answered
Produced == {r \in {outcome, response} : r.kind = "result"}

\* C11: in every AnalyzeResult produced by the pipeline (test-case mode and production,
\* also production runs whose policy text is empty) a non-null insight comes only with
\* flags that hold no _conflict flag; with a _conflict flag the insight is null.
C11_InsightOnlyWithoutConflict ==
    \A r \in Produced : HasFlagIn(r.flags, ConflictNames) => r.insight = Undefined

C11_Witness ==
    /\ nodeEnv = "production"
    /\ pc = "returned"
    /\ Trim(policyText) = <<>>
    /\ policyText # <<>>
    /\ rules.flags # <<>>
    /\ outcome.insight # Undefined

\* the flag lists of the early exits and of the failure fallback
EarlyExitFlags == {<<"invalid_url">>, <<"dev_only">>, <<"analysis_failed">>}

\* C12: every result returned on an early exit or a failure (invalid_url, dev_only,
\* analysis_failed), by analyzeProduct and by each route, is a complete AnalyzeResult:
\* it carries all eight keys, with insight null and details present.
C12_EarlyExitIsComplete ==
    \A r \in Produced :
        r.flags \in EarlyExitFlags
            => /\ r.keys = AllKeys
               /\ r.insight = Undefined
               /\ r.details # Undefined

\* C13: when the content-retrieval call never answers, analyzeProduct still ends: the
\* call is given up after a fixed timeout and the invocation returns the analysis_failed
\* fallback.
C13_UnansweredCallTimesOut ==
    (entry = "lib" /\ pc = "await_mino")
        ~> (pc = "returned" /\ outcome.flags = <<"analysis_failed">>)

\* every step starts where a continuation is ready
RunningIsExact == [][Running]_vars

\* the progress events of analyzeProduct, in the order of its stages
FixedOrder ==
    <<"validate_input", "call_mino", "collect_pages", "extract_rules", "parse_documents",
      "analyze_rules", "finalize">>

Rank(e) == CHOOSE i \in 1..Len(FixedOrder) : FixedOrder[i] = e

IsPipelineEvent(e) == \E i \in 1..Len(FixedOrder) : FixedOrder[i] = e

\* the stages that are announced, each with the trace step it announces
Announces ==
    {[event |-> "call_mino", step |-> "Fetch Mino data"],
     [event |-> "collect_pages", step |-> "Compile policy text"],
     [event |-> "extract_rules", step |-> "Extract claims"],
     [event |-> "analyze_rules", step |-> "Detect contradictions"]}

\* the run reports to a progress sink
SinkSupplied == entry = "stream" \/ (entry = "lib" /\ options.onStep)

\* C14: with a progress sink, the progress events of a run come in the fixed order
\* validate_input, call_mino, collect_pages, extract_rules, parse_documents,
\* analyze_rules, finalize, each at most once, and each announcing event is sent before
\* the trace step of its stage is pushed.
C14_ProgressEventsInOrder ==
    SinkSupplied
        => LET ev == SelectSeq(emitted, IsPipelineEvent)
           IN  /\ \A i, j \in 1..Len(ev) : i < j => Rank(ev[i]) < Rank(ev[j])
               /\ \A k \in 1..Len(log) : \A a \in Announces :
                      log[k] = <<"step", a.step>>
                          => \E j \in 1..(k - 1) : log[j] = <<"event", a.event>>

C14_Witness ==
    /\ entry = "lib"
    /\ options.onStep
    /\ nodeEnv = "production"
    /\ pc = "returned"
    /\ emitted = FixedOrder

\* what the stream has sent so far is well-formed
StreamEventOrder ==
    entry = "stream"
        => /\ emitted # <<>> => emitted[1] = "validate_input"
           /\ Count(emitted, "validate_input") <= 1
           /\ Count(emitted, "done") <= 1
           /\ closed <=> Count(emitted, "done") = 1
           /\ closed => emitted[Len(emitted)] = "done"
           /\ handler = "done"
                  => /\ closed
                     /\ Count(emitted, "validate_input") = 1
                     /\ response.kind = "result"

\* C15: on every streamed analysis (empty, invalid or valid url; collaborator success or
\* failure) the first event is validate_input, sent exactly once; exactly one done event
\* is sent, it is the last event, and the stream is closed with it. The done event comes
\* in every run in which the content-retrieval call answers at all.
C15_StreamEndsWithDone ==
    /\ []StreamEventOrder
    /\ (entry = "stream") ~> (closed \/ pc = "await_mino")

C15_Witness ==
    /\ entry = "stream"
    /\ handler = "done"
    /\ nodeEnv = "production"
    /\ mino.ok
    /\ Len(emitted) = 10
    /\ emitted[1] = "validate_input"
    /\ emitted[Len(emitted)] = "done"

\* on the stream, a collaborator failure also ends with the done event
C15_FailureWitness ==
    /\ StreamFellBack
    /\ closed
    /\ emitted[Len(emitted)] = "done"

\* names and statuses of the complete trace of analyzeProduct(l.url) run on its own,
\* given the answer l.mino it received in production
ExpectedTrace(l) ==
    IF ValidationFailure(l.url) # Undefined THEN <<<<"Validate URL", "failed">>>>
    ELSE IF ~IsProduction
    THEN IF TEST_CASES(l.url) = Undefined
         THEN <<<<"Validate URL", "done">>, <<"Load test case", "failed">>>>
         ELSE <<<<"Validate URL", "done">>, <<"Load test case", "done">>,
                <<"Extract claims", "done">>, <<"Extract policy", "done">>,
                <<"Detect contradictions", "done">>, <<"Explain flags", "done">>>>
    ELSE IF ~l.mino.ok
         THEN <<<<"Validate URL", "done">>, <<"Fetch Mino data", "failed">>>>
         ELSE <<<<"Validate URL", "done">>, <<"Fetch Mino data", "done">>,
                <<"Compile policy text", "done">>, <<"Extract claims", "done">>,
                <<"Extract policy", "done">>, <<"Detect contradictions", "done">>,
                <<"Explain flags", "done">>>>

\* flags and verdict of analyzeProduct(l.url) run on its own
ExpectedRules(l) ==
    IF ValidationFailure(l.url) # Undefined
    THEN [flags |-> <<"invalid_url">>, verdict |-> "unclear"]
    ELSE IF ~IsProduction
    THEN IF TEST_CASES(l.url) = Undefined
         THEN [flags |-> <<"dev_only">>, verdict |-> "unclear"]
         ELSE detectContradictions(extractClaims(Val(TEST_CASES(l.url)).productText),
                                   extractPolicy(Val(TEST_CASES(l.url)).policyText))
    ELSE detectContradictions(extractClaims(l.mino.productText),
                              extractPolicy(JoinPages(l.mino.policyPages)))

IsPrefix(a, b) == Len(a) <= Len(b) /\ a = SubSeq(b, 1, Len(a))

\* the invocation with locals l behaves as it does on its own
AsAlone(l) ==
    /\ IsPrefix(TraceOf(l.steps), ExpectedTrace(l))
    /\ l.pc = "returned"
           => /\ TraceOf(l.outcome.steps) = ExpectedTrace(l)
              /\ l.outcome.flags = ExpectedRules(l).flags
              /\ l.outcome.verdict = ExpectedRules(l).verdict
    /\ l.pc = "threw"
           => /\ IsProduction
              /\ ~l.mino.ok
              /\ TraceOf(l.steps) = ExpectedTrace(l)

\* C16: two analyzeProduct invocations interleaved at their suspension points are
\* independent: the trace of each holds only the steps it pushed itself, and each
\* returns the flags, the verdict and the step sequence it returns when run alone.
C16_InvocationsIndependent ==
    entry = "pair" => (AsAlone(Locals) /\ AsAlone(other))

C16_Witness ==
    /\ entry = "pair"
    /\ handler = "first"
    /\ pc = "returned"
    /\ other.pc = "explain"
    /\ url # other.url
    /\ Len(outcome.steps) >= 6
    /\ Len(other.steps) >= 4
    /\ outcome.verdict = "risk"

TestCaseDone(u) ==
    /\ nodeEnv = "development"
    /\ url = u
    /\ pc \in {"returned", "r_done"}

Answer == IF pc = "r_done" THEN response ELSE outcome

\* C18 (scenario A): analysing the "clear" test case (product text "In stock. Returns
\* accepted within 30 days. 1 year warranty included.", policy text "Return policy:
\* returns accepted within 30 days. Warranty lasts 12 months.") yields flags [], verdict
\* good and a non-null insight.
C18_ScenarioClear ==
    TestCaseDone(UrlClear)
        => /\ productText = ClearProductText
           /\ policyText = ClearPolicyText
           /\ Answer.flags = <<>>
           /\ Answer.verdict = "good"
           /\ Answer.insight # Undefined

C18_Witness ==
    /\ TestCaseDone(UrlClear)
    /\ entry = "lib"
    /\ outcome.verdict = "good"
    /\ Len(outcome.steps) = 6

\* C19 (scenario B): analysing the "conflict" test case (product text "Price match
\* guarantee. In stock. Free returns in 30 days.", policy text "Prices subject to change
\* without notice. Availability not guaranteed.") yields flags that include both
\* stock_conflict and price_conflict, verdict risk, and a null insight.
C19_ScenarioConflict ==
    TestCaseDone(UrlConflict)
        => /\ productText = ConflictProductText
           /\ policyText = ConflictPolicyText
           /\ HasFlagIn(Answer.flags, {"stock_conflict"})
           /\ HasFlagIn(Answer.flags, {"price_conflict"})
           /\ Answer.verdict = "risk"
           /\ Answer.insight = Undefined

C19_Witness ==
    /\ TestCaseDone(UrlConflict)
    /\ entry = "lib"
    /\ outcome.verdict = "risk"
    /\ Len(outcome.steps) = 6

\* a failed step is the last step of the trace, and no stage appears twice
FailFast(trace) ==
    /\ \A i \in 1..Len(trace) : trace[i].status = "failed" => i = Len(trace)
    /\ \A i, j \in 1..Len(trace) : i < j => trace[i].name # trace[j].name

\* C20: the first failure ends the run: at every moment the trace of a run holds at most
\* one failed step, that step is its last element, no stage is retried and no step is
\* pushed after a failed step; the same holds of the trace in every answer.
C20_FirstFailureEndsRun ==
    /\ FailFast(steps)
    /\ \A r \in Produced : FailFast(r.steps)
    /\ (steps # <<>> /\ steps[Len(steps)].status = "failed")
           => pc \in {"returned", "threw", "r_done"}

C20_Witness ==
    /\ entry = "lib"
    /\ pc = "threw"
    /\ Len(steps) = 2
    /\ steps[2].status = "failed"
    /\ steps[2].timed

C20_RouteWitness ==
    /\ entry = "route"
    /\ pc = "r_done"
    /\ Len(response.steps) = 3
    /\ response.steps[3].status = "failed"
    /\ response.steps[3].timed

\* a step carries a detail exactly when it failed
DetailIffFailed(trace) ==
    \A i \in 1..Len(trace) : (trace[i].detail # Undefined) <=> (trace[i].status = "failed")

\* C21: in every trace a step carries a detail message if and only if its status is
\* failed: no done step has a detail, and every failed step (validation failure, unknown
\* test url, a stage that threw) has one.
C21_DetailOnlyOnFailure ==
    /\ DetailIffFailed(steps)
    /\ \A r \in Produced : DetailIffFailed(r.steps)
    /\ DetailIffFailed(other.steps)

C21_Witness ==
    /\ entry = "lib"
    /\ nodeEnv = "development"
    /\ pc = "returned"
    /\ Len(outcome.steps) = 2
    /\ outcome.steps[1].status = "done"
    /\ outcome.steps[1].detail = Undefined
    /\ outcome.steps[2].status = "failed"
    /\ outcome.steps[2].detail = Some("Unknown test URL")

\* a stage that threw carries the message of its error
C21_ThrownWitness ==
    /\ entry = "lib"
    /\ pc = "threw"
    /\ steps[Len(steps)].detail = Some("Mino API error: 500")

\* whether analyzeProduct(l.url), given the answer l.mino, returns an insight
ExpectedInsight(l) ==
    IF ValidationFailure(l.url) # Undefined THEN FALSE
    ELSE IF ~IsProduction
    THEN TEST_CASES(l.url) # Undefined /\ ExpectedRules(l).flags = <<>>
    ELSE \/ ExpectedRules(l).flags = <<>>
         \/ Trim(JoinPages(l.mino.policyPages)) = <<>>

\* C22: a progress sink does not change the outcome: flags, verdict, presence of the
\* insight and the names and statuses of the trace are determined by the url, the mode
\* and the collaborator's answer alone, so a run with a sink and a run without one agree.
C22_SinkDoesNotChangeOutcome ==
    entry = "lib"
        => /\ IsPrefix(TraceOf(steps), ExpectedTrace(Locals))
           /\ pc = "returned"
                  => /\ TraceOf(outcome.steps) = ExpectedTrace(Locals)
                     /\ outcome.flags = ExpectedRules(Locals).flags
                     /\ outcome.verdict = ExpectedRules(Locals).verdict
                     /\ (outcome.insight # Undefined) <=> ExpectedInsight(Locals)
           /\ pc = "threw" => TraceOf(steps) = ExpectedTrace(Locals)

C22_Witness ==
    /\ entry = "lib"
    /\ options.onStep
    /\ nodeEnv = "production"
    /\ pc = "returned"
    /\ mino.ok
    /\ Len(emitted) >= 6
    /\ outcome.insight # Undefined

\* the step names of a complete run, by mode
CanonicalSteps ==
    IF IsProduction
    THEN <<"Validate URL", "Fetch Mino data", "Compile policy text", "Extract claims",
           "Extract policy", "Detect contradictions", "Explain flags">>
    ELSE <<"Validate URL", "Load test case", "Extract claims", "Extract policy",
           "Detect contradictions", "Explain flags">>

StepNames(trace) == [i \in 1..Len(trace) |-> trace[i].name]

\* C23: the stages of analyzeProduct run strictly in sequence: at every moment the step
\* names of the trace are a prefix of the canonical sequence of the mode, every step
\* before the last is done, and a run that completed without a failure has the full
\* sequence.
C23_StagesInSequence ==
    entry \in {"lib", "stream"}
        => /\ IsPrefix(StepNames(steps), CanonicalSteps)
           /\ \A i \in 1..(Len(steps) - 1) : steps[i].status = "done"
           /\ (pc = "returned" /\ \A i \in 1..Len(steps) : steps[i].status = "done")
                  => StepNames(outcome.steps) = CanonicalSteps

C23_Witness ==
    /\ entry = "stream"
    /\ nodeEnv = "production"
    /\ pc = "returned"
    /\ StepNames(outcome.steps) = CanonicalSteps
    /\ Len(outcome.steps) = 7

\* the seven conflict rules as a table: the rule's number, when it holds, what it appends
RuleHolds(n, c, p) ==
    CASE n = 1 -> /\ c.returnsDays # Undefined /\ p.returnsDays # Undefined
                  /\ ~(Val(c.returnsDays) <= Val(p.returnsDays))
      [] n = 2 -> c.returnsAllowed = {TRUE} /\ p.returnsAllowed = {FALSE}
      [] n = 3 -> c.returnsAllowed = {FALSE} /\ p.returnsAllowed = {TRUE}
      [] n = 4 -> /\ c.warrantyMonths # Undefined /\ p.warrantyMonths # Undefined
                  /\ ~(Val(c.warrantyMonths) <= Val(p.warrantyMonths))
      [] n = 5 -> c.warrantyProvided = {TRUE} /\ p.warrantyProvided = {FALSE}
      [] n = 6 -> c.stockStatus = {"in_stock"} /\ p.stockWarning = {TRUE}
      [] n = 7 -> c.priceGuarantee = {TRUE} /\ p.pricePolicy = {"price_change"}

RuleAppends(n) ==
    CASE n \in {1, 2, 3} -> "returns_conflict"
      [] n \in {4, 5} -> "warranty_conflict"
      [] n = 6 -> "stock_conflict"
      [] n = 7 -> "price_conflict"

\* the rules that hold, in rule order
RulesHolding(c, p) == SelectSeq(<<1, 2, 3, 4, 5, 6, 7>>, LAMBDA n : RuleHolds(n, c, p))

\* the fields each topic reads on the claim side and on the policy side
TopicClaimFields(t) ==
    CASE t = "returns" -> {"returnsDays", "returnsAllowed"}
      [] t = "warranty" -> {"warrantyMonths", "warrantyProvided"}
      [] t = "stock" -> {"stockStatus"}
      [] t = "price" -> {"priceGuarantee", "priceValue"}

TopicPolicyFields(t) ==
    CASE t = "returns" -> {"returnsDays", "returnsAllowed"}
      [] t = "warranty" -> {"warrantyMonths", "warrantyProvided"}
      [] t = "stock" -> {"stockWarning"}
      [] t = "price" -> {"pricePolicy"}

Topics == {"returns", "warranty", "stock", "price"}

AnyPresent(f, fields) == \E k \in fields : f[k] # Undefined

SomeTopicUncovered(c, p) ==
    \E t \in Topics : AnyPresent(c, TopicClaimFields(t)) /\ ~AnyPresent(p, TopicPolicyFields(t))

NoFieldPresent(c, p) == ~AnyPresent(c, DOMAIN NoFacts) /\ ~AnyPresent(p, DOMAIN NoFacts)

NoTopicFieldPresent(c, p) ==
    \A t \in Topics : ~AnyPresent(c, TopicClaimFields(t)) /\ ~AnyPresent(p, TopicPolicyFields(t))

\* the reference list: what the rules that hold append, then unclear
ReferenceFlags(c, p, nothing) ==
    [i \in 1..Len(RulesHolding(c, p)) |-> RuleAppends(RulesHolding(c, p)[i])]
    \o (IF SomeTopicUncovered(c, p) \/ nothing THEN <<"unclear">> ELSE <<>>)

\* a claim no more generous than the policy triggers neither rule 1 nor rule 4
LessGenerousIsNoConflict ==
    /\ (/\ claims.returnsDays # Undefined /\ policy.returnsDays # Undefined
        /\ Val(claims.returnsDays) <= Val(policy.returnsDays))
           => Count(rules.flags, "returns_conflict")
                  = Cardinality({n \in {2, 3} : RuleHolds(n, claims, policy)})
    /\ (/\ claims.warrantyMonths # Undefined /\ policy.warrantyMonths # Undefined
        /\ Val(claims.warrantyMonths) <= Val(policy.warrantyMonths))
           => Count(rules.flags, "warranty_conflict")
                  = Cardinality({n \in {5} : RuleHolds(n, claims, policy)})

C24_OrderWitness ==
    /\ pc = "detected"
    /\ RuleHolds(3, claims, policy)
    /\ RuleHolds(4, claims, policy)
    /\ rules.flags = <<"returns_conflict", "warranty_conflict">>

\* a field no topic reads on its side is present and the detector still reports unclear
C24_UnreadFieldWitness ==
    /\ pc = "detected"
    /\ claims = NoFacts
    /\ policy.stockStatus # Undefined
    /\ rules.flags = <<"unclear">>

\* C25: the verdict caution is unreachable: detectContradictions never returns it, and no
\* AnalyzeResult produced on any path (success, invalid_url, dev_only, analysis_failed)
\* carries it.
C25_CautionUnreachable ==
    /\ rules.verdict # "caution"
    /\ other.rules.verdict # "caution"
    /\ \A r \in Produced : r.verdict # "caution"

\* the nearest case: flags that are not empty and hold no conflict, returned as unclear
C25_Witness ==
    /\ pc \in {"returned", "detected"}
    /\ rules.flags # <<>>
    /\ ~hasConflict(rules.flags)
    /\ rules.verdict = "unclear"
    /\ pc = "returned" => outcome.verdict = "unclear"

\* an early exit and a failure fallback have answered
C25_EarlyExitWitness ==
    /\ Produced # {}
    /\ \E r \in Produced : r.flags = <<"analysis_failed">> /\ r.verdict = "unclear"

\* C26: fetchPageHtml never rejects: on every path (a page, a non-success status, a
\* network error, an abort after the timeout) it resolves to blocked false with the html
\* or to blocked true without html, and its timer is cleared before it returns, so no
\* abort fires after it has completed.
C26_FetchPageNeverRejects ==
    page.pc = "settled"
        => /\ ~page.rejected
           /\ page.blocked <=> page.html = Undefined
           /\ page.timer = "cleared"
           /\ ~ENABLED TimerFires

\* the request was aborted by the timer and the call resolved to blocked
C26_Witness ==
    /\ page.pc = "settled"
    /\ page.aborted
    /\ page.blocked
    /\ handler = "await"

\* the page was retrieved
C26_HtmlWitness ==
    /\ page.pc = "settled"
    /\ page.html = Some(SampleHtml)
    /\ ~page.blocked

\* C27: when the reader of the event stream goes away while the pipeline runs, so that
\* writing an event fails, the pipeline is neither aborted nor altered: analyzeProduct is
\* never ended by what the sink throws, it goes on to its remaining stages.
C27_DisconnectDoesNotAbort ==
    consumer = "gone" => ~(outcome.kind = "threw" /\ outcome.error = "Invalid state")

\* the reader went away during the content-retrieval call and the pipeline was ended by
\* the sink
C27_AbortWitness ==
    /\ consumer = "gone"
    /\ outcome.kind = "threw"
    /\ mino.ok
    /\ steps # <<>>

\* the policy text of the run is empty or blank
PolicyTextBlank == Trim(policyText) = <<>>

\* the detector has run on the facts extracted from the two texts
Detected ==
    /\ pc \in {"explain", "finalize", "returned", "detected", "rerun"}
    /\ rules # NoRules

\* C28: whenever the policy text is empty or blank, the flags hold no _conflict flag,
\* whatever the product text, and the verdict is not risk; a result with an insight
\* built because the policy text is empty is therefore never a conflicting result.
C28_BlankPolicyNeverConflicts ==
    (Detected /\ PolicyTextBlank)
        => /\ ~hasConflict(rules.flags)
           /\ rules.verdict # "risk"
           /\ pc = "returned" => (~hasConflict(outcome.flags) /\ outcome.verdict # "risk")

\* a product text full of claims met a blank policy text in production
C28_Witness ==
    /\ IsProduction
    /\ pc = "returned"
    /\ productText = ConflictProductText
    /\ policyText = BlankText
    /\ outcome.insight # Undefined
    /\ outcome.verdict = "unclear"

\* C29: in every AnalyzeResult a non-null insight comes with an empty flags list: the
\* insight messages, which say that no flags were raised or detected, are never returned
\* together with a flag, also not with unclear in production when the policy text is
\* empty.
C29_InsightImpliesNoFlags ==
    \A r \in Produced : r.insight # Undefined => r.flags = <<>>

\* a production run without policy text returned unclear together with the message that
\* no flags were raised
C29_UnclearWithInsight ==
    /\ IsProduction
    /\ pc = "returned"
    /\ PolicyTextBlank
    /\ outcome.flags = <<"unclear">>
    /\ outcome.insight # Undefined
    /\ Val(outcome.insight).message
           = "No hidden policy pages were found, and no flags were raised."

\* analyzeProduct, called with the url the route validates and given the same answer of
\* the content-retrieval call, returns a result: it throws when that call fails
AnalyzeReturns(l) ==
    ~(ValidationFailure(l.url) = Undefined /\ IsProduction /\ ~l.mino.ok)

\* C30: the inline pipeline of the /api/analyze route and analyzeProduct are equivalent:
\* for every request url, mode and outcome of the content-retrieval call, a failing one
\* included, both produce the same verdict, the same flags and the same sequence of
\* trace step names and statuses.
C30_RouteEqualsAnalyzeProduct ==
    (entry = "route" /\ pc = "r_done" /\ request.parses)
        => LET l == [url |-> url, mino |-> mino]
           IN  /\ AnalyzeReturns(l)
               /\ response.verdict = ExpectedRules(l).verdict
               /\ response.flags = ExpectedRules(l).flags
               /\ TraceOf(response.steps) = ExpectedTrace(l)

\* the route answered a failed content-retrieval call, which analyzeProduct throws on
C30_FailedRetrievalAnswered ==
    /\ entry = "route"
    /\ pc = "r_done"
    /\ IsProduction
    /\ response.flags = <<"analysis_failed">>
    /\ TraceOf(response.steps)
           = <<<<"Parse request", "done">>, <<"Validate URL", "done">>,
               <<"Fetch Mino data", "failed">>>>
    /\ ~AnalyzeReturns([url |-> url, mino |-> mino])

====
